---- MODULE Spec2Model ----
(***************************************************************************)
(* Model of the simplex-lint pipeline: the soft parser, the structural,    *)
(* complexity, evolution and determinism checkers, the result model and    *)
(* the Lint orchestrator.                                                  *)
(*                                                                         *)
(* A Go string is modelled as a sequence of one-character strings, so that *)
(* the regular expressions and the strings.* calls of the source are       *)
(* computed character by character.  Fixed message texts and error codes,  *)
(* which the code never inspects, are TLA+ strings.                        *)
(***************************************************************************)
EXTENDS Integers, Sequences, FiniteSets, TLC

VARIABLES
    text,       \* the content handed to Lint
    cfg,        \* lint.Config given to New: [MaxRules, MaxInputs]
    pc,         \* position inside Linter.Lint / Parser.Parse
    matches,    \* Parser.Parse: local `matches` (findLandmarks)
    landmarks,  \* Parser.Parse: local `landmarks` (extractLandmarkContent)
    spec,       \* the ParsedSpec
    r,          \* the LintResult
    op,         \* the LintResult method called last (result-model specification)
    ran,        \* the checkers run so far (specification of the checkers in any order)
    other,      \* a second invocation of Lint on the same Linter
    http,       \* one request to /api/lint and the progress of lintHandler on it
    cli         \* one run of the command-line program

vars == <<text, cfg, pc, matches, landmarks, spec, r, op, ran, other, http, cli>>

----------------------------------------------------------------------------
(* Characters and the strings package                                      *)

UpperChars == <<"A","B","C","D","E","F","G","H","I","J","K","L","M",
                "N","O","P","Q","R","S","T","U","V","W","X","Y","Z">>
LowerChars == <<"a","b","c","d","e","f","g","h","i","j","k","l","m",
                "n","o","p","q","r","s","t","u","v","w","x","y","z">>
DigitChars == <<"0","1","2","3","4","5","6","7","8","9">>

Range(s) == {s[i] : i \in DOMAIN s}
Upper == Range(UpperChars)
Lower == Range(LowerChars)
Digit == Range(DigitChars)

\* regexp \s and the ASCII part of unicode.IsSpace
IsSpace(c) == c \in {" ", "\t", "\n", "\r"}
\* regexp \w
IsWord(c) == c \in Upper \cup Lower \cup Digit \cup {"_"}

SetMin(S) == CHOOSE i \in S : \A j \in S : i <= j
SetMax(S) == CHOOSE i \in S : \A j \in S : i >= j

\* strings.TrimSpace
TrimSpace(s) ==
    LET keep == {i \in 1..Len(s) : ~IsSpace(s[i])}
    IN  IF keep = {} THEN <<>> ELSE SubSeq(s, SetMin(keep), SetMax(keep))

\* strings.HasPrefix
HasPrefix(s, p) == Len(s) >= Len(p) /\ SubSeq(s, 1, Len(p)) = p

\* strings.TrimPrefix
TrimPrefix(s, p) == IF HasPrefix(s, p) THEN SubSeq(s, Len(p) + 1, Len(s)) ELSE s

\* s[i:] of a match at 1-based position i
MatchesAt(s, i, p) == i + Len(p) - 1 <= Len(s) /\ SubSeq(s, i, i + Len(p) - 1) = p

\* strings.Contains
Contains(s, p) == \E i \in 1..(Len(s) + 1) : MatchesAt(s, i, p)

\* strings.Index(s, sep), 1-based; 0 when sep does not occur
Index(s, c) ==
    LET at == {i \in 1..Len(s) : s[i] = c}
    IN  IF at = {} THEN 0 ELSE SetMin(at)

\* strings.Split(s, sep) for a one-character separator
RECURSIVE Split(_, _)
Split(s, c) ==
    LET i == Index(s, c)
    IN  IF i = 0 THEN <<s>>
        ELSE <<SubSeq(s, 1, i - 1)>> \o Split(SubSeq(s, i + 1, Len(s)), c)

\* strings.Count(s, sep) for a one-character separator
Count(s, c) == Cardinality({i \in 1..Len(s) : s[i] = c})

\* strings.ToLower (ASCII)
ToLowerChar(c) ==
    IF c \in Upper THEN LowerChars[CHOOSE i \in 1..26 : UpperChars[i] = c] ELSE c
ToLower(s) == [i \in 1..Len(s) |-> ToLowerChar(s[i])]

\* strconv.Itoa / fmt's %d for a non-negative int
RECURSIVE Itoa(_)
Itoa(n) == IF n < 10 THEN <<DigitChars[n + 1]>>
           ELSE Itoa(n \div 10) \o <<DigitChars[(n % 10) + 1]>>

\* fmt.Sprintf(format, args...): the format and its formatted arguments
Sprintf(format, args) == [fmt |-> format, args |-> args]
\* a literal message
Literal(s) == [fmt |-> s, args |-> <<>>]

RECURSIVE SumSeq(_)
SumSeq(s) == IF s = <<>> THEN 0 ELSE Head(s) + SumSeq(Tail(s))

----------------------------------------------------------------------------
(* parser: landmark names                                                  *)

LandmarkDATA        == <<"D","A","T","A">>
LandmarkCONSTRAINT  == <<"C","O","N","S","T","R","A","I","N","T">>
LandmarkFUNCTION    == <<"F","U","N","C","T","I","O","N">>
LandmarkBASELINE    == <<"B","A","S","E","L","I","N","E">>
LandmarkEVAL        == <<"E","V","A","L">>
LandmarkRULES       == <<"R","U","L","E","S">>
LandmarkDONE_WHEN   == <<"D","O","N","E","_","W","H","E","N">>
LandmarkEXAMPLES    == <<"E","X","A","M","P","L","E","S">>
LandmarkERRORS      == <<"E","R","R","O","R","S">>
LandmarkREADS       == <<"R","E","A","D","S">>
LandmarkWRITES      == <<"W","R","I","T","E","S">>
LandmarkTRIGGERS    == <<"T","R","I","G","G","E","R","S">>
LandmarkNOT_ALLOWED == <<"N","O","T","_","A","L","L","O","W","E","D">>
LandmarkHANDOFF     == <<"H","A","N","D","O","F","F">>
LandmarkUNCERTAIN   == <<"U","N","C","E","R","T","A","I","N">>
LandmarkDETERMINISM == <<"D","E","T","E","R","M","I","N","I","S","M">>

FunctionLandmarks ==
    { LandmarkRULES, LandmarkDONE_WHEN, LandmarkEXAMPLES, LandmarkERRORS,
      LandmarkREADS, LandmarkWRITES, LandmarkTRIGGERS, LandmarkNOT_ALLOWED,
      LandmarkHANDOFF, LandmarkUNCERTAIN, LandmarkBASELINE, LandmarkEVAL,
      LandmarkDETERMINISM }

----------------------------------------------------------------------------
(* parser: findLandmarks                                                   *)
(* landmarkPattern, multi-line mode: line start, [A-Z][A-Z_]+ captured as  *)
(* the name, a colon, \s* and the rest of the line captured as content.    *)

\* a slip: a position after a blank also counts as a line start
AtLineStartOrIndented(s, i) == i = 1 \/ s[i - 1] \in {"\n", " "}

\* (?m)^ : the start of the text or the position after a line break
AtLineStart(s, i) == i = 1 \/ s[i - 1] = "\n"

\* end of the longest run of characters satisfying the class, from position i
\* (i - 1 when s[i] is not in the class)
RunEnd(s, i, InClass(_)) ==
    LET stop == {j \in i..Len(s) : ~InClass(s[j])}
    IN  IF stop = {} THEN Len(s) ELSE SetMin(stop) - 1

IsNameChar(c) == c \in Upper \cup {"_"}
IsNotNewline(c) == c # "\n"

\* One match of landmarkPattern starting at position i, or the empty sequence.
\* [A-Z][A-Z_]+ is greedy and must be followed by the colon; \s* is greedy and
\* crosses line breaks; the second group runs to the end of the line it starts on.
LandmarkMatchAt(s, i) ==
    IF ~(i <= Len(s) /\ AtLineStart(s, i) /\ s[i] \in Upper) THEN <<>>
    ELSE LET nameEnd == RunEnd(s, i + 1, IsNameChar)
         IN  IF ~(nameEnd >= i + 1 /\ nameEnd + 1 <= Len(s) /\ s[nameEnd + 1] = ":")
             THEN <<>>
             ELSE LET wsEnd   == RunEnd(s, nameEnd + 2, IsSpace)
                      restEnd == RunEnd(s, wsEnd + 1, IsNotNewline)
                  IN  << [ name       |-> SubSeq(s, i, nameEnd),
                           content    |-> TrimSpace(SubSeq(s, wsEnd + 1, restEnd)),
                           lineNumber |-> Count(SubSeq(s, 1, i - 1), "\n") + 1,
                           startIndex |-> i,          \* first character
                           endIndex   |-> restEnd ] >> \* last character

\* FindAllStringSubmatchIndex: leftmost matches, each search resuming where the
\* previous match ended.
RECURSIVE FindFrom(_, _)
FindFrom(s, from) ==
    LET starts == {i \in from..Len(s) : LandmarkMatchAt(s, i) # <<>>}
    IN  IF starts = {} THEN <<>>
        ELSE LET m == LandmarkMatchAt(s, SetMin(starts))[1]
             IN  <<m>> \o FindFrom(s, m.endIndex + 1)

findLandmarks(s) == FindFrom(s, 1)

----------------------------------------------------------------------------
(* parser: extractLandmarkContent                                          *)

extractLandmarkContent(s, ms) ==
    [ i \in 1..Len(ms) |->
        LET m          == ms[i]
            contentEnd == IF i + 1 <= Len(ms) THEN ms[i + 1].startIndex - 1 ELSE Len(s)
            content    == TrimSpace(SubSeq(s, m.endIndex + 1, contentEnd))
        IN  [ Name       |-> m.name,
              Content    |-> IF m.content # <<>>
                             THEN IF content # <<>>
                                  THEN m.content \o <<"\n">> \o content
                                  ELSE m.content
                             ELSE content,
              LineNumber |-> m.lineNumber ] ]

----------------------------------------------------------------------------
(* parser: parseFunctionBlock                                              *)
(* functionSigPattern: \w+ captured as the name, \s*, an argument list in  *)
(* parentheses holding no closing parenthesis, \s*, the arrow (the glyph   *)
(* or the digraph), \s*, and one or more characters up to the end.         *)

IsNotCloseParen(c) == c # ")"

\* FindStringSubmatch: <<name, args, returnType>> or the empty sequence
SigMatch(sig) ==
    LET nameEnd == RunEnd(sig, 1, IsWord)
        open    == RunEnd(sig, nameEnd + 1, IsSpace) + 1
        close   == RunEnd(sig, open + 1, IsNotCloseParen) + 1
        arrow   == RunEnd(sig, close + 1, IsSpace) + 1
        arrowLen == IF MatchesAt(sig, arrow, <<"→">>) THEN 1
                    ELSE IF MatchesAt(sig, arrow, <<"-", ">">>) THEN 2 ELSE 0
        ret     == RunEnd(sig, arrow + arrowLen, IsSpace) + 1
    IN  IF /\ nameEnd >= 1
           /\ open <= Len(sig) /\ sig[open] = "("
           /\ close <= Len(sig) /\ sig[close] = ")"
           /\ arrowLen > 0
           /\ ret <= Len(sig)
           /\ \A j \in ret..Len(sig) : sig[j] # "\n"
        THEN << SubSeq(sig, 1, nameEnd),
                SubSeq(sig, open + 1, close - 1),
                SubSeq(sig, ret, Len(sig)) >>
        ELSE <<>>

\* the split, trimmed, non-empty inputs
ParseInputs(inputStr) ==
    IF inputStr = <<>> THEN <<>>
    ELSE LET parts   == Split(inputStr, ",")
             trimmed == [i \in 1..Len(parts) |-> TrimSpace(parts[i])]
         IN  SelectSeq(trimmed, LAMBDA p : p # <<>>)

\* a slip: a signature that does not parse leaves the name empty
parseFunctionBlockDropsName(lm) ==
    LET idx     == Index(lm.Content, "\n")
        sigLine == TrimSpace(IF idx > 0 THEN SubSeq(lm.Content, 1, idx - 1)
                             ELSE lm.Content)
        m       == SigMatch(sigLine)
    IN  [ Signature  |-> sigLine,
          Name       |-> IF m # <<>> THEN m[1] ELSE <<>>,
          Inputs     |-> IF m # <<>> THEN ParseInputs(TrimSpace(m[2])) ELSE <<>>,
          ReturnType |-> IF m # <<>> THEN TrimSpace(m[3]) ELSE <<>>,
          Landmarks  |-> <<>>,
          LineNumber |-> lm.LineNumber ]

parseFunctionBlock(lm) ==
    LET idx     == Index(lm.Content, "\n")
        sigLine == TrimSpace(IF idx > 0 THEN SubSeq(lm.Content, 1, idx - 1)
                             ELSE lm.Content)
        m       == SigMatch(sigLine)
    IN  IF m # <<>>
        THEN [ Signature  |-> sigLine,
               Name       |-> m[1],
               Inputs     |-> ParseInputs(TrimSpace(m[2])),
               ReturnType |-> TrimSpace(m[3]),
               Landmarks  |-> <<>>,
               LineNumber |-> lm.LineNumber ]
        ELSE [ Signature  |-> sigLine,
               Name       |-> sigLine,
               Inputs     |-> <<>>,
               ReturnType |-> <<>>,
               Landmarks  |-> <<>>,
               LineNumber |-> lm.LineNumber ]

----------------------------------------------------------------------------
(* parser: organizeLandmarks and Parse                                     *)

\* map[string]Landmark
EmptyMap == [n \in {} |-> <<>>]
MapPut(m, k, v) == [n \in (DOMAIN m) \cup {k} |-> IF n = k THEN v ELSE m[n]]

\* the ParsedSpec Parse starts from
EmptySpec ==
    [ Functions |-> <<>>, DataBlocks |-> <<>>, Constraints |-> <<>>,
      ParseWarnings |-> <<>> ]

\* string(rune(n + '0')): the single character whose code point is n + 48
\* (code points 48..90: the digits, seven punctuation marks, the capitals)
RuneChars == DigitChars \o <<":", ";", "<", "=", ">", "?", "@">> \o UpperChars
RuneString(n) == <<RuneChars[n + 1]>>

WarnOutside(lm) ==
    [ fmt  |-> "landmark %s at line %s appears outside FUNCTION block",
      args |-> <<lm.Name, RuneString(lm.LineNumber)>> ]
WarnUnrecognized(lm) ==
    [ fmt  |-> "unrecognized landmark: %s at line %s",
      args |-> <<lm.Name, RuneString(lm.LineNumber)>> ]

\* a slip: only DATA ends the function context, CONSTRAINT leaves it open
OrganizeOneConstraintKeeps(st, lm) ==
    LET sp == st.spec IN
    IF lm.Name = LandmarkFUNCTION
    THEN LET fn == [parseFunctionBlock(lm) EXCEPT !.Landmarks = EmptyMap]
         IN  [ spec |-> [sp EXCEPT !.Functions = Append(@, fn)],
               cur  |-> Len(sp.Functions) + 1 ]
    ELSE IF lm.Name = LandmarkDATA
    THEN [ spec |-> [sp EXCEPT !.DataBlocks = Append(@, lm)], cur |-> 0 ]
    ELSE IF lm.Name = LandmarkCONSTRAINT
    THEN [ spec |-> [sp EXCEPT !.Constraints = Append(@, lm)], cur |-> st.cur ]
    ELSE IF lm.Name \in FunctionLandmarks
    THEN IF st.cur # 0
         THEN [ spec |-> [sp EXCEPT !.Functions[st.cur].Landmarks =
                                        MapPut(@, lm.Name, lm)],
                cur  |-> st.cur ]
         ELSE [ spec |-> [sp EXCEPT !.ParseWarnings = Append(@, WarnOutside(lm))],
                cur  |-> st.cur ]
    ELSE [ spec |-> [sp EXCEPT !.ParseWarnings = Append(@, WarnUnrecognized(lm))],
           cur  |-> st.cur ]

\* a slip: an unrecognized landmark ends the current function
OrganizeOneUnrecognizedEnds(st, lm) ==
    LET sp == st.spec IN
    IF lm.Name = LandmarkFUNCTION
    THEN LET fn == [parseFunctionBlock(lm) EXCEPT !.Landmarks = EmptyMap]
         IN  [ spec |-> [sp EXCEPT !.Functions = Append(@, fn)],
               cur  |-> Len(sp.Functions) + 1 ]
    ELSE IF lm.Name = LandmarkDATA
    THEN [ spec |-> [sp EXCEPT !.DataBlocks = Append(@, lm)], cur |-> 0 ]
    ELSE IF lm.Name = LandmarkCONSTRAINT
    THEN [ spec |-> [sp EXCEPT !.Constraints = Append(@, lm)], cur |-> 0 ]
    ELSE IF lm.Name \in FunctionLandmarks
    THEN IF st.cur # 0
         THEN [ spec |-> [sp EXCEPT !.Functions[st.cur].Landmarks =
                                        MapPut(@, lm.Name, lm)],
                cur  |-> st.cur ]
         ELSE [ spec |-> [sp EXCEPT !.ParseWarnings = Append(@, WarnOutside(lm))],
                cur  |-> st.cur ]
    ELSE [ spec |-> [sp EXCEPT !.ParseWarnings = Append(@, WarnUnrecognized(lm))],
           cur  |-> 0 ]

\* a slip: DATA and CONSTRAINT leave currentFunction as it is
OrganizeOneKeepsFunction(st, lm) ==
    LET sp == st.spec IN
    IF lm.Name = LandmarkFUNCTION
    THEN LET fn == [parseFunctionBlock(lm) EXCEPT !.Landmarks = EmptyMap]
         IN  [ spec |-> [sp EXCEPT !.Functions = Append(@, fn)],
               cur  |-> Len(sp.Functions) + 1 ]
    ELSE IF lm.Name = LandmarkDATA
    THEN [ spec |-> [sp EXCEPT !.DataBlocks = Append(@, lm)], cur |-> st.cur ]
    ELSE IF lm.Name = LandmarkCONSTRAINT
    THEN [ spec |-> [sp EXCEPT !.Constraints = Append(@, lm)], cur |-> st.cur ]
    ELSE IF lm.Name \in FunctionLandmarks
    THEN IF st.cur # 0
         THEN [ spec |-> [sp EXCEPT !.Functions[st.cur].Landmarks =
                                        MapPut(@, lm.Name, lm)],
                cur  |-> st.cur ]
         ELSE [ spec |-> [sp EXCEPT !.ParseWarnings = Append(@, WarnOutside(lm))],
                cur  |-> st.cur ]
    ELSE [ spec |-> [sp EXCEPT !.ParseWarnings = Append(@, WarnUnrecognized(lm))],
           cur  |-> st.cur ]

\* one iteration of the loop of organizeLandmarks; st = [spec, cur] where cur
\* is the index of the function currentFunction points to, 0 for nil
OrganizeOne(st, lm) ==
    LET sp == st.spec IN
    IF lm.Name = LandmarkFUNCTION
    THEN LET fn == [parseFunctionBlock(lm) EXCEPT !.Landmarks = EmptyMap]
         IN  [ spec |-> [sp EXCEPT !.Functions = Append(@, fn)],
               cur  |-> Len(sp.Functions) + 1 ]
    ELSE IF lm.Name = LandmarkDATA
    THEN [ spec |-> [sp EXCEPT !.DataBlocks = Append(@, lm)], cur |-> 0 ]
    ELSE IF lm.Name = LandmarkCONSTRAINT
    THEN [ spec |-> [sp EXCEPT !.Constraints = Append(@, lm)], cur |-> 0 ]
    ELSE IF lm.Name \in FunctionLandmarks
    THEN IF st.cur # 0
         THEN [ spec |-> [sp EXCEPT !.Functions[st.cur].Landmarks =
                                        MapPut(@, lm.Name, lm)],
                cur  |-> st.cur ]
         ELSE [ spec |-> [sp EXCEPT !.ParseWarnings = Append(@, WarnOutside(lm))],
                cur  |-> st.cur ]
    ELSE [ spec |-> [sp EXCEPT !.ParseWarnings = Append(@, WarnUnrecognized(lm))],
           cur  |-> st.cur ]

RECURSIVE OrganizeLoop(_, _)
OrganizeLoop(st, lms) ==
    IF lms = <<>> THEN st ELSE OrganizeLoop(OrganizeOne(st, Head(lms)), Tail(lms))

organizeLandmarks(sp, lms) == OrganizeLoop([spec |-> sp, cur |-> 0], lms).spec

\* FunctionBlock accessors
HasLandmark(fn, name) == name \in DOMAIN fn.Landmarks
GetContent(fn, name) == IF HasLandmark(fn, name) THEN fn.Landmarks[name].Content ELSE <<>>
GetRules(fn)       == GetContent(fn, LandmarkRULES)
GetExamples(fn)    == GetContent(fn, LandmarkEXAMPLES)
GetBaseline(fn)    == GetContent(fn, LandmarkBASELINE)
GetEval(fn)        == GetContent(fn, LandmarkEVAL)
GetDeterminism(fn) == GetContent(fn, LandmarkDETERMINISM)
HasBaseline(fn)    == HasLandmark(fn, LandmarkBASELINE)
HasEval(fn)        == HasLandmark(fn, LandmarkEVAL)
HasDeterminism(fn) == HasLandmark(fn, LandmarkDETERMINISM)

----------------------------------------------------------------------------
(* result: LintResult                                                      *)

SeverityError   == "error"
SeverityWarning == "warning"

\* a nil *string
NoSuggestion == <<>>

NewLintResult(file) ==
    [ File |-> file, Valid |-> TRUE, Errors |-> <<>>, Warnings |-> <<>>,
      Stats |-> [ Functions |-> 0, Branches |-> 0, Examples |-> 0,
                  CoveragePercent |-> <<0, 1>> ] ]

AddError(res, code, message, location) ==
    [res EXCEPT !.Errors = Append(@, [ Code |-> code, Message |-> message,
                                       Location |-> location,
                                       Severity |-> SeverityError,
                                       Suggestion |-> NoSuggestion,
                                       Fixable |-> FALSE ]),
                !.Valid = FALSE]

AddErrorWithSuggestion(res, code, message, location, suggestion, fixable) ==
    [res EXCEPT !.Errors = Append(@, [ Code |-> code, Message |-> message,
                                       Location |-> location,
                                       Severity |-> SeverityError,
                                       Suggestion |-> <<suggestion>>,
                                       Fixable |-> fixable ]),
                !.Valid = FALSE]

\* a slip: the warning path copied from AddError, flag included
AddWarningMarksInvalid(res, code, message, location) ==
    [res EXCEPT !.Warnings = Append(@, [ Code |-> code, Message |-> message,
                                         Location |-> location,
                                         Severity |-> SeverityWarning,
                                         Suggestion |-> NoSuggestion,
                                         Fixable |-> FALSE ]),
                !.Valid = FALSE]

AddWarning(res, code, message, location) ==
    [res EXCEPT !.Warnings = Append(@, [ Code |-> code, Message |-> message,
                                         Location |-> location,
                                         Severity |-> SeverityWarning,
                                         Suggestion |-> NoSuggestion,
                                         Fixable |-> FALSE ])]

AddWarningWithSuggestion(res, code, message, location, suggestion, fixable) ==
    [res EXCEPT !.Warnings = Append(@, [ Code |-> code, Message |-> message,
                                         Location |-> location,
                                         Severity |-> SeverityWarning,
                                         Suggestion |-> <<suggestion>>,
                                         Fixable |-> fixable ])]

\* encoding/json on the tagged struct types: an object is the sequence of its
\* members <<key, value>> in field order; a field tagged omitempty is left
\* out when it is nil or zero
MarshalLintError(e) ==
    SelectSeq(<< <<"code", e.Code>>, <<"message", e.Message>>,
                 <<"location", e.Location>>, <<"severity", e.Severity>>,
                 <<"suggestion", e.Suggestion>>, <<"fixable", e.Fixable>> >>,
              LAMBDA m : ~(m[1] = "suggestion" /\ e.Suggestion = NoSuggestion))

MarshalLintStats(s) ==
    SelectSeq(<< <<"functions", s.Functions>>, <<"branches", s.Branches>>,
                 <<"examples", s.Examples>>,
                 <<"coverage_percent", s.CoveragePercent>> >>,
              LAMBDA m : ~(m[1] = "coverage_percent" /\ s.CoveragePercent[1] = 0))

ToJSON(res) ==
    << <<"file", res.File>>,
       <<"valid", res.Valid>>,
       <<"errors", [i \in 1..Len(res.Errors) |-> MarshalLintError(res.Errors[i])]>>,
       <<"warnings", [i \in 1..Len(res.Warnings) |-> MarshalLintError(res.Warnings[i])]>>,
       <<"stats", MarshalLintStats(res.Stats)>> >>

----------------------------------------------------------------------------
(* checks: StructuralChecker                                               *)

formatFunctionLocation(name) ==
    IF name = <<>> THEN <<"F","U","N","C","T","I","O","N"," ","(","u","n","n","a","m","e","d",")">> ELSE <<"F","U","N","C","T","I","O","N"," ">> \o name

\* a slip: the existence check reports nothing
checkFunctionExistsSilent(sp, res) == res

checkFunctionExists(sp, res) ==
    IF Len(sp.Functions) = 0
    THEN AddError(res, "E001", Literal("No FUNCTION block found"), <<"s","p","e","c">>)
    ELSE res

\* a slip: EXAMPLES tested before DONE_WHEN
checkRequiredLandmarksOfExamplesFirst(fn, res) ==
    LET loc == formatFunctionLocation(fn.Name)
        r2  == IF ~HasLandmark(fn, LandmarkRULES)
               THEN AddError(res, "E002", Literal("FUNCTION missing RULES landmark"), loc)
               ELSE res
        r3  == IF ~HasLandmark(fn, LandmarkEXAMPLES)
               THEN AddError(r2, "E004", Literal("FUNCTION missing EXAMPLES landmark"), loc)
               ELSE r2
        r4  == IF ~HasLandmark(fn, LandmarkDONE_WHEN)
               THEN AddError(r3, "E003", Literal("FUNCTION missing DONE_WHEN landmark"), loc)
               ELSE r3
    IN  IF ~HasLandmark(fn, LandmarkERRORS)
        THEN AddErrorWithSuggestion(r4, "E005",
                 Literal("FUNCTION missing ERRORS landmark"), loc,
                 "Add ERRORS: block with at least: - any unhandled condition → fail with descriptive message",
                 TRUE)
        ELSE r4

\* the body of the loop of checkRequiredLandmarks
checkRequiredLandmarksOf(fn, res) ==
    LET loc == formatFunctionLocation(fn.Name)
        r2  == IF ~HasLandmark(fn, LandmarkRULES)
               THEN AddError(res, "E002", Literal("FUNCTION missing RULES landmark"), loc)
               ELSE res
        r3  == IF ~HasLandmark(fn, LandmarkDONE_WHEN)
               THEN AddError(r2, "E003", Literal("FUNCTION missing DONE_WHEN landmark"), loc)
               ELSE r2
        r4  == IF ~HasLandmark(fn, LandmarkEXAMPLES)
               THEN AddError(r3, "E004", Literal("FUNCTION missing EXAMPLES landmark"), loc)
               ELSE r3
    IN  IF ~HasLandmark(fn, LandmarkERRORS)
        THEN AddErrorWithSuggestion(r4, "E005",
                 Literal("FUNCTION missing ERRORS landmark"), loc,
                 "Add ERRORS: block with at least: - any unhandled condition → fail with descriptive message",
                 TRUE)
        ELSE r4

RECURSIVE RequiredLoop(_, _)
RequiredLoop(fns, res) ==
    IF fns = <<>> THEN res
    ELSE RequiredLoop(Tail(fns), checkRequiredLandmarksOf(Head(fns), res))

checkRequiredLandmarks(sp, res) == RequiredLoop(sp.Functions, res)

\* len(s) in bytes: the arrow glyph takes three bytes in UTF-8
ByteLen(s) == SumSeq([i \in 1..Len(s) |-> IF s[i] = "→" THEN 3 ELSE 1])

extractTypeName(content) ==
    LET ws == {i \in 1..Len(content) : content[i] \in {"\n", " ", "\t"}}
    IN  IF ws # {} /\ SetMin(ws) > 1 THEN SubSeq(content, 1, SetMin(ws) - 1)
        ELSE IF Len(content) > 0 /\ ByteLen(content) < 100 THEN content
        ELSE <<>>

TypePrefixes == << <<"l","i","s","t","o","f">>, <<"a","r","r","a","y","o","f">>, <<"s","e","t","o","f">> >>

normalizeTypeName(name) ==
    LET kept       == SelectSeq(name, LAMBDA c : c # " " /\ c # "_")
        normalized == ToLower(kept)
        hits       == {i \in 1..Len(TypePrefixes) :
                           /\ Len(normalized) > Len(TypePrefixes[i])
                           /\ HasPrefix(normalized, TypePrefixes[i])}
    IN  IF hits = {} THEN normalized
        ELSE SubSeq(normalized, Len(TypePrefixes[SetMin(hits)]) + 1, Len(normalized))

Builtins ==
    { <<"s","t","r","i","n","g">>, <<"i","n","t">>, <<"i","n","t","e","g","e","r">>, <<"n","u","m","b","e","r">>,
      <<"b","o","o","l">>, <<"b","o","o","l","e","a","n">>, <<"f","l","o","a","t">>, <<"d","o","u","b","l","e">>,
      <<"l","i","s","t">>, <<"a","r","r","a","y">>, <<"m","a","p">>, <<"d","i","c","t">>,
      <<"a","n","y">>, <<"v","o","i","d">>, <<"n","o","n","e">>, <<"n","u","l","l">>,
      <<"r","e","s","u","l","t">>, <<"o","u","t","p","u","t">>, <<"s","u","m">>, <<"f","i","l","t","e","r","e","d">>,
      <<"v","a","l","i","d">>, <<"i","s","s","u","e","s">>, <<"t","i","m","e","s","t","a","m","p">>, <<"i","d">> }

checkTypeReference(typeName, definedTypes, funcName, res, sp) ==
    LET normalized == normalizeTypeName(typeName)
    IN  IF normalized \in Builtins THEN res
        ELSE IF normalized \in definedTypes \/ typeName \in definedTypes THEN res
        ELSE IF Len(sp.DataBlocks) > 0
             THEN AddWarning(res, "E006",
                      Sprintf("Return type '%s' may reference undefined DATA type",
                              <<typeName>>),
                      formatFunctionLocation(funcName))
             ELSE res

RECURSIVE DataRefLoop(_, _, _, _)
DataRefLoop(fns, definedTypes, res, sp) ==
    IF fns = <<>> THEN res
    ELSE LET fn == Head(fns)
         IN  DataRefLoop(Tail(fns), definedTypes,
                 IF fn.ReturnType # <<>>
                 THEN checkTypeReference(fn.ReturnType, definedTypes, fn.Name, res, sp)
                 ELSE res,
                 sp)

checkDataReferences(sp, res) ==
    LET definedTypes == {extractTypeName(sp.DataBlocks[i].Content) :
                             i \in 1..Len(sp.DataBlocks)} \ {<<>>}
    IN  DataRefLoop(sp.Functions, definedTypes, res, sp)

StructuralCheck(sp, res) ==
    LET r1 == checkFunctionExists(sp, res)
    IN  IF Len(sp.Functions) = 0 THEN r1
        ELSE checkDataReferences(sp, checkRequiredLandmarks(sp, r1))

----------------------------------------------------------------------------
(* checks: ComplexityChecker                                               *)

DefaultMaxRules      == 15
DefaultMaxInputs     == 6
DefaultMaxRuleLength == 200
DefaultMaxFunctions  == 10

DefaultComplexityConfig ==
    [ MaxRules |-> DefaultMaxRules, MaxInputs |-> DefaultMaxInputs,
      MaxRuleLength |-> DefaultMaxRuleLength, MaxFunctions |-> DefaultMaxFunctions ]

\* lint.New: the ComplexityConfig the linter's complexity checker is built with
New(config) ==
    [ DefaultComplexityConfig EXCEPT
        !.MaxRules  = IF config.MaxRules > 0 THEN config.MaxRules ELSE @,
        !.MaxInputs = IF config.MaxInputs > 0 THEN config.MaxInputs ELSE @ ]

\* a slip: a dash with nothing after it is kept as an item
ExtractRuleItemsKeepsEmpty(rules) ==
    LET lines   == Split(rules, "\n")
        trimmed == [i \in 1..Len(lines) |-> TrimSpace(lines[i])]
        dashed  == SelectSeq(trimmed, LAMBDA t : Len(t) > 0 /\ t[1] = "-")
        items   == [i \in 1..Len(dashed) |-> TrimSpace(Tail(dashed[i]))]
    IN  IF Len(items) = 0 THEN SelectSeq(trimmed, LAMBDA t : t # <<>>) ELSE items

ExtractRuleItems(rules) ==
    LET lines   == Split(rules, "\n")
        trimmed == [i \in 1..Len(lines) |-> TrimSpace(lines[i])]
        dashed  == SelectSeq(trimmed, LAMBDA t : Len(t) > 0 /\ t[1] = "-")
        stripped == [i \in 1..Len(dashed) |-> TrimSpace(Tail(dashed[i]))]
        items   == SelectSeq(stripped, LAMBDA t : t # <<>>)
    IN  IF Len(items) = 0 THEN SelectSeq(trimmed, LAMBDA t : t # <<>>) ELSE items

CountRuleItems(rules) == Len(ExtractRuleItems(rules))

CountExamples(examples) ==
    LET lines   == Split(examples, "\n")
        trimmed == [i \in 1..Len(lines) |-> TrimSpace(lines[i])]
    IN  Len(SelectSeq(trimmed, LAMBDA t :
            /\ t # <<>>
            /\ \/ t[1] = "("
               \/ Contains(t, <<"→">>)
               \/ Contains(t, <<"-", ">">>)))

\* \bw\b at position i: w there, no word character on either side
WordAt(t, i, w) ==
    /\ MatchesAt(t, i, w)
    /\ (i = 1 \/ ~IsWord(t[i - 1]))
    /\ (i + Len(w) - 1 = Len(t) \/ ~IsWord(t[i + Len(w)]))

\* positions of the matches of a one-word pattern (FindAllString)
WordStarts(t, w) == {i \in 1..Len(t) : WordAt(t, i, w)}

\* For a pattern  \bhead\b[^,\n]*TAIL : the positions at which a match that
\* starts with head at position i can end.  TAIL is one of the words of
\* `tails`, followed by a word boundary and, when tailBoundary holds, also
\* preceded by one.
SpanEnds(t, i, head, tails, tailBoundary) ==
    LET reach == {j \in (i + Len(head))..Len(t) :
                     \A k \in (i + Len(head))..(j - 1) : t[k] # "," /\ t[k] # "\n"}
        endsAt(j) == { j + Len(w) - 1 : w \in {w \in tails :
                         /\ MatchesAt(t, j, w)
                         /\ (j + Len(w) - 1 = Len(t) \/ ~IsWord(t[j + Len(w)]))
                         /\ (tailBoundary => ~IsWord(t[j - 1]))} }
    IN  UNION {endsAt(j) : j \in reach}

\* FindAllStringIndex of such a pattern from position `from`: the start
\* positions of the leftmost, greedy, non-overlapping matches
RECURSIVE SpanStarts(_, _, _, _, _)
SpanStarts(t, from, head, tails, tailBoundary) ==
    LET starts == {i \in from..Len(t) :
                      WordAt(t, i, head) /\ SpanEnds(t, i, head, tails, tailBoundary) # {}}
    IN  IF starts = {} THEN <<>>
        ELSE LET i == SetMin(starts)
                 e == SetMax(SpanEnds(t, i, head, tails, tailBoundary))
             IN  <<i>> \o SpanStarts(t, e + 1, head, tails, tailBoundary)

wIf        == <<"i","f">>
wOr        == <<"o","r">>
wOtherwise == <<"o","t","h","e","r","w","i","s","e">>
wElse      == <<"e","l","s","e">>
wWhen      == <<"w","h","e","n">>
wOptionally == <<"o","p","t","i","o","n","a","l","l","y">>
wEither    == <<"e","i","t","h","e","r">>

\* the start positions of the matches of branchEitherOrPattern
EitherOrMatches(t) == SpanStarts(t, 1, wEither, {wOr}, TRUE)
\* len(pattern.FindAllString(line, -1)) for the other patterns
IfOrCount(line)   == Len(SpanStarts(line, 1, wIf, {wOr}, TRUE))
IfElseCount(line) == Len(SpanStarts(line, 1, wIf, {wOtherwise, wElse}, FALSE))
SimpleIfCount(line) == Cardinality(WordStarts(line, wIf))
WhenCount(line)   == Cardinality(WordStarts(line, wWhen))
OptionalCount(t)  == Cardinality(WordStarts(t, wOptionally))

\* offset (1-based position of the first character) of line i of `lines`
RECURSIVE LineOffset(_, _)
LineOffset(lines, i) ==
    IF i = 1 THEN 1 ELSE LineOffset(lines, i - 1) + Len(lines[i - 1]) + 1

\* isEitherLine[i]: a match of branchEitherOrPattern starts on line i
isEitherLine(lines, either, i) ==
    \E k \in 1..Len(either) :
        /\ either[k] >= LineOffset(lines, i)
        /\ either[k] < LineOffset(lines, i) + Len(lines[i])

\* the matches of one pattern, summed over the lines that are not either lines
PerLine(lines, either, F(_)) ==
    SumSeq([i \in 1..Len(lines) |-> IF isEitherLine(lines, either, i) THEN 0 ELSE F(lines[i])])

\* the additions to count, from the numbers of matches
BranchTotal(rulesContent, eitherCount, ifOrCount, ifElseCount, allIfCount, whenCount, optionalCount) ==
    LET simpleIfCount == allIfCount - ifOrCount - ifElseCount
        count == eitherCount * 2 + ifOrCount * 2 + ifElseCount * 2
                 + (IF simpleIfCount > 0 THEN simpleIfCount ELSE 0)
                 + whenCount
                 + optionalCount * 2
    IN  IF count = 0 /\ TrimSpace(rulesContent) # <<>> THEN 1 ELSE count

\* CountBranches once content, the either matches and the lines are known
CountBranchesIn(rulesContent, content, either, lines) ==
    BranchTotal(rulesContent,
                Len(either),
                PerLine(lines, either, IfOrCount),
                PerLine(lines, either, IfElseCount),
                PerLine(lines, either, SimpleIfCount),
                PerLine(lines, either, WhenCount),
                OptionalCount(content))

CountBranchesLower(rulesContent, content) ==
    CountBranchesIn(rulesContent, content, EitherOrMatches(content), Split(content, "\n"))

CountBranches(rulesContent) == CountBranchesLower(rulesContent, ToLower(rulesContent))

checkFunctionCount(sp, res, config) ==
    IF Len(sp.Functions) > config.MaxFunctions
    THEN AddWarning(res, "W011",
             Sprintf("Spec has %d FUNCTION blocks (consider splitting into multiple specs, max recommended: %d)",
                     <<Itoa(Len(sp.Functions)), Itoa(config.MaxFunctions)>>),
             <<"s","p","e","c">>)
    ELSE res

\* a slip: the limit itself already counts as too many
checkRulesComplexityAtLimit(fn, res, config) ==
    LET rules == GetRules(fn)
        count == CountRuleItems(rules)
    IN  IF rules = <<>> THEN res
        ELSE IF count >= config.MaxRules
        THEN AddError(res, "E010",
                 Sprintf("RULES block has %d items (max %d)",
                         <<Itoa(count), Itoa(config.MaxRules)>>),
                 formatFunctionLocation(fn.Name))
        ELSE res

checkRulesComplexity(fn, res, config) ==
    LET rules == GetRules(fn)
        count == CountRuleItems(rules)
    IN  IF rules = <<>> THEN res
        ELSE IF count > config.MaxRules
        THEN AddError(res, "E010",
                 Sprintf("RULES block has %d items (max %d)",
                         <<Itoa(count), Itoa(config.MaxRules)>>),
                 formatFunctionLocation(fn.Name))
        ELSE res

checkInputCount(fn, res, config) ==
    IF Len(fn.Inputs) > config.MaxInputs
    THEN AddError(res, "E011",
             Sprintf("FUNCTION has %d inputs (max %d)",
                     <<Itoa(Len(fn.Inputs)), Itoa(config.MaxInputs)>>),
             formatFunctionLocation(fn.Name))
    ELSE res

RECURSIVE RuleLengthLoop(_, _, _, _, _)
RuleLengthLoop(items, i, fn, res, config) ==
    IF i > Len(items) THEN res
    ELSE RuleLengthLoop(items, i + 1, fn,
             IF ByteLen(items[i]) > config.MaxRuleLength
             THEN AddWarningWithSuggestion(res, "W010",
                      Sprintf("RULES item %d exceeds %d characters (%d chars)",
                              <<Itoa(i), Itoa(config.MaxRuleLength),
                                Itoa(ByteLen(items[i]))>>),
                      formatFunctionLocation(fn.Name),
                      "Consider breaking this rule into multiple simpler rules",
                      FALSE)
             ELSE res,
             config)

checkRuleLength(fn, res, config) ==
    LET rules == GetRules(fn)
    IN  IF rules = <<>> THEN res
        ELSE RuleLengthLoop(ExtractRuleItems(rules), 1, fn, res, config)

\* a slip: as many examples as branches already counts as too few
checkExampleCoverageNotMore(fn, res) ==
    LET rules        == GetRules(fn)
        examples     == GetExamples(fn)
        branchCount  == CountBranches(rules)
        exampleCount == CountExamples(examples)
    IN  IF rules = <<>> \/ examples = <<>> THEN res
        ELSE IF exampleCount <= branchCount
        THEN AddError(res, "E012",
                 Sprintf("EXAMPLES has %d items but RULES has %d branches (examples should cover all branches)",
                         <<Itoa(exampleCount), Itoa(branchCount)>>),
                 formatFunctionLocation(fn.Name))
        ELSE res

checkExampleCoverage(fn, res) ==
    LET rules        == GetRules(fn)
        examples     == GetExamples(fn)
        branchCount  == CountBranches(rules)
        exampleCount == CountExamples(examples)
    IN  IF rules = <<>> \/ examples = <<>> THEN res
        ELSE IF exampleCount < branchCount
        THEN AddError(res, "E012",
                 Sprintf("EXAMPLES has %d items but RULES has %d branches (examples should cover all branches)",
                         <<Itoa(exampleCount), Itoa(branchCount)>>),
                 formatFunctionLocation(fn.Name))
        ELSE res

RECURSIVE ComplexityLoop(_, _, _)
ComplexityLoop(fns, res, config) ==
    IF fns = <<>> THEN res
    ELSE LET fn == Head(fns)
         IN  ComplexityLoop(Tail(fns),
                 checkExampleCoverage(fn,
                     checkRuleLength(fn,
                         checkInputCount(fn,
                             checkRulesComplexity(fn, res, config),
                             config),
                         config)),
                 config)

ComplexityCheck(sp, res, config) ==
    ComplexityLoop(sp.Functions, checkFunctionCount(sp, res, config), config)

----------------------------------------------------------------------------
(* checks: EvolutionChecker                                                *)

\* a slip: a BASELINE landmark with empty content is taken as absent
checkBaselineEvalPairNonEmpty(fn, res) ==
    IF GetBaseline(fn) # <<>> /\ ~HasEval(fn)
    THEN AddErrorWithSuggestion(res, "E060",
             Literal("EVAL required when BASELINE present"),
             formatFunctionLocation(fn.Name),
             "Add EVAL: block with preserve and evolve thresholds (e.g., preserve: pass^3, evolve: pass@5)",
             TRUE)
    ELSE res

checkBaselineEvalPair(fn, res) ==
    IF HasBaseline(fn) /\ ~HasEval(fn)
    THEN AddErrorWithSuggestion(res, "E060",
             Literal("EVAL required when BASELINE present"),
             formatFunctionLocation(fn.Name),
             "Add EVAL: block with preserve and evolve thresholds (e.g., preserve: pass^3, evolve: pass@5)",
             TRUE)
    ELSE res

kReference == <<"r","e","f","e","r","e","n","c","e",":">>
kPreserve  == <<"p","r","e","s","e","r","v","e",":">>
kEvolve    == <<"e","v","o","l","v","e",":">>
kGrading   == <<"g","r","a","d","i","n","g",":">>
kLevel     == <<"l","e","v","e","l",":">>
kSeed      == <<"s","e","e","d",":">>
kVary      == <<"v","a","r","y",":">>
kStable    == <<"s","t","a","b","l","e",":">>

\* the non-empty trimmed lines a checker's field scan walks over
FieldLines(content) ==
    LET lines   == Split(content, "\n")
        trimmed == [i \in 1..Len(lines) |-> TrimSpace(lines[i])]
    IN  SelectSeq(trimmed, LAMBDA t : t # <<>>)

\* a slip: a reference line leaves currentField as it is
BaselineScanOneStickyField(st, trimmed) ==
    IF HasPrefix(trimmed, kReference)
    THEN [st EXCEPT !.hasReference = TRUE]
    ELSE IF HasPrefix(trimmed, kPreserve)
    THEN [st EXCEPT !.hasPreserve = TRUE, !.currentField = "preserve"]
    ELSE IF HasPrefix(trimmed, kEvolve)
    THEN [st EXCEPT !.hasEvolve = TRUE, !.currentField = "evolve"]
    ELSE IF HasPrefix(trimmed, <<"-">>)
    THEN IF st.currentField = "preserve"
         THEN [st EXCEPT !.preserveItems = @ + 1]
         ELSE IF st.currentField = "evolve"
         THEN [st EXCEPT !.evolveItems = @ + 1]
         ELSE st
    ELSE st

\* the scan of checkBaselineStructure; st is the record of its locals
BaselineScanOne(st, trimmed) ==
    IF HasPrefix(trimmed, kReference)
    THEN [st EXCEPT !.hasReference = TRUE, !.currentField = "reference"]
    ELSE IF HasPrefix(trimmed, kPreserve)
    THEN [st EXCEPT !.hasPreserve = TRUE, !.currentField = "preserve"]
    ELSE IF HasPrefix(trimmed, kEvolve)
    THEN [st EXCEPT !.hasEvolve = TRUE, !.currentField = "evolve"]
    ELSE IF HasPrefix(trimmed, <<"-">>)
    THEN IF st.currentField = "preserve"
         THEN [st EXCEPT !.preserveItems = @ + 1]
         ELSE IF st.currentField = "evolve"
         THEN [st EXCEPT !.evolveItems = @ + 1]
         ELSE st
    ELSE st

RECURSIVE BaselineScan(_, _)
BaselineScan(st, lines) ==
    IF lines = <<>> THEN st
    ELSE BaselineScan(BaselineScanOne(st, Head(lines)), Tail(lines))

checkBaselineStructure(fn, res) ==
    LET loc == formatFunctionLocation(fn.Name) \o <<" ","B","A","S","E","L","I","N","E">>
        st  == BaselineScan([ hasReference |-> FALSE, hasPreserve |-> FALSE,
                              hasEvolve |-> FALSE, preserveItems |-> 0,
                              evolveItems |-> 0, currentField |-> "" ],
                            FieldLines(GetBaseline(fn)))
        r1  == IF ~st.hasReference
               THEN AddError(res, "E050", Literal("BASELINE requires reference field"), loc)
               ELSE res
        r2  == IF ~st.hasPreserve
               THEN AddError(r1, "E051", Literal("BASELINE requires preserve field"), loc)
               ELSE IF st.preserveItems = 0
               THEN AddError(r1, "E053",
                        Literal("BASELINE preserve must contain at least one item"), loc)
               ELSE r1
    IN  IF ~st.hasEvolve
        THEN AddError(r2, "E052", Literal("BASELINE requires evolve field"), loc)
        ELSE IF st.evolveItems = 0
        THEN AddError(r2, "E054",
                 Literal("BASELINE evolve must contain at least one item"), loc)
        ELSE r2

\* the value a field scan ends with: that of the last line starting with the
\* field name, the empty string when there is none
RECURSIVE LastField(_, _, _)
LastField(lines, key, value) ==
    IF lines = <<>> THEN value
    ELSE LastField(Tail(lines), key,
             IF HasPrefix(Head(lines), key)
             THEN TrimSpace(TrimPrefix(Head(lines), key))
             ELSE value)

\* the scan of checkEvalStructure: preserve, evolve, grading, tested in that order
RECURSIVE EvalScan(_, _)
EvalScan(st, lines) ==
    IF lines = <<>> THEN st
    ELSE LET t == Head(lines)
         IN  EvalScan(
                 IF HasPrefix(t, kPreserve)
                 THEN [st EXCEPT !.preserve = TrimSpace(TrimPrefix(t, kPreserve))]
                 ELSE IF HasPrefix(t, kEvolve)
                 THEN [st EXCEPT !.evolve = TrimSpace(TrimPrefix(t, kEvolve))]
                 ELSE IF HasPrefix(t, kGrading)
                 THEN [st EXCEPT !.grading = TrimSpace(TrimPrefix(t, kGrading))]
                 ELSE st,
                 Tail(lines))

\* a slip: the digits after the prefix may be missing
ThresholdMatchNoDigits(value, prefix) ==
    /\ HasPrefix(value, prefix)
    /\ \A i \in (Len(prefix) + 1)..Len(value) : value[i] \in Digit

\* preservePattern / evolvePattern: the prefix, then one or more digits, then the end
ThresholdMatch(value, prefix) ==
    /\ HasPrefix(value, prefix)
    /\ Len(value) > Len(prefix)
    /\ \A i \in (Len(prefix) + 1)..Len(value) : value[i] \in Digit

ValidGrading == { <<"c","o","d","e">>, <<"m","o","d","e","l">>, <<"o","u","t","c","o","m","e">> }

checkEvalStructure(fn, res) ==
    LET loc == formatFunctionLocation(fn.Name) \o <<" ","E","V","A","L">>
        st  == EvalScan([preserve |-> <<>>, evolve |-> <<>>, grading |-> <<>>],
                        FieldLines(GetEval(fn)))
        r1  == IF HasBaseline(fn) /\ st.preserve = <<>>
               THEN AddError(res, "E061",
                        Literal("EVAL requires preserve threshold when BASELINE present"), loc)
               ELSE res
        r2  == IF HasBaseline(fn) /\ st.evolve = <<>>
               THEN AddError(r1, "E062",
                        Literal("EVAL requires evolve threshold when BASELINE present"), loc)
               ELSE r1
        r3  == IF st.preserve # <<>> /\ ~ThresholdMatch(st.preserve, <<"p","a","s","s","^">>)
               THEN AddError(r2, "E063",
                        Sprintf("preserve threshold must use pass^k notation, got: %s",
                                <<st.preserve>>), loc)
               ELSE r2
        r4  == IF st.evolve # <<>> /\ ~ThresholdMatch(st.evolve, <<"p","a","s","s","@">>)
               THEN AddError(r3, "E064",
                        Sprintf("evolve threshold must use pass@k notation, got: %s",
                                <<st.evolve>>), loc)
               ELSE r3
    IN  IF st.grading # <<>> /\ st.grading \notin ValidGrading
        THEN AddError(r4, "E065",
                 Sprintf("grading must be code, model, or outcome, got: %s",
                         <<st.grading>>), loc)
        ELSE r4

RECURSIVE EvolutionLoop(_, _)
EvolutionLoop(fns, res) ==
    IF fns = <<>> THEN res
    ELSE LET fn == Head(fns)
             r1 == checkBaselineEvalPair(fn, res)
             r2 == IF HasBaseline(fn) THEN checkBaselineStructure(fn, r1) ELSE r1
             r3 == IF HasEval(fn) THEN checkEvalStructure(fn, r2) ELSE r2
         IN  EvolutionLoop(Tail(fns), r3)

\* a slip: the evolution checks are skipped for a result that already has errors
EvolutionCheckWhenValid(sp, res) == IF res.Valid THEN EvolutionLoop(sp.Functions, res) ELSE res

EvolutionCheck(sp, res) == EvolutionLoop(sp.Functions, res)

----------------------------------------------------------------------------
(* checks: DeterminismChecker                                              *)

ValidLevels == { <<"s","t","r","i","c","t">>, <<"s","t","r","u","c","t","u","r","a","l">>, <<"s","e","m","a","n","t","i","c">> }

\* a slip: a block without a level is let through
checkDeterminismStructureLenient(fn, res) ==
    LET loc   == formatFunctionLocation(fn.Name) \o <<" ","D","E","T","E","R","M","I","N","I","S","M">>
        level == LastField(FieldLines(GetDeterminism(fn)), kLevel, <<>>)
    IN  IF level # <<>> /\ level \notin ValidLevels
        THEN AddError(res, "E070",
                 Sprintf("DETERMINISM level must be strict, structural, or semantic, got: %s",
                         <<level>>), loc)
        ELSE res

checkDeterminismStructure(fn, res) ==
    LET loc   == formatFunctionLocation(fn.Name) \o <<" ","D","E","T","E","R","M","I","N","I","S","M">>
        level == LastField(FieldLines(GetDeterminism(fn)), kLevel, <<>>)
    IN  IF level = <<>>
        THEN AddError(res, "E070",
                 Literal("DETERMINISM requires level field (strict, structural, or semantic)"),
                 loc)
        ELSE IF level \notin ValidLevels
        THEN AddError(res, "E070",
                 Sprintf("DETERMINISM level must be strict, structural, or semantic, got: %s",
                         <<level>>), loc)
        ELSE res

\* The other version of the same check: its scan also records seed, vary and
\* stable, in one if / else-if chain with level, and then discards them.
RECURSIVE DeterminismScan(_, _)
DeterminismScan(st, lines) ==
    IF lines = <<>> THEN st
    ELSE LET t == Head(lines)
         IN  DeterminismScan(
                 IF HasPrefix(t, kLevel)
                 THEN [st EXCEPT !.level = TrimSpace(TrimPrefix(t, kLevel))]
                 ELSE IF HasPrefix(t, kSeed)
                 THEN [st EXCEPT !.seed = TrimSpace(TrimPrefix(t, kSeed))]
                 ELSE IF HasPrefix(t, kVary)
                 THEN [st EXCEPT !.hasVary = TRUE]
                 ELSE IF HasPrefix(t, kStable)
                 THEN [st EXCEPT !.hasStable = TRUE]
                 ELSE st,
                 Tail(lines))

checkDeterminismStructureFields(fn, res) ==
    LET loc == formatFunctionLocation(fn.Name) \o <<" ","D","E","T","E","R","M","I","N","I","S","M">>
        st  == DeterminismScan([ level |-> <<>>, seed |-> <<>>,
                                 hasVary |-> FALSE, hasStable |-> FALSE ],
                               FieldLines(GetDeterminism(fn)))
    IN  IF st.level = <<>>
        THEN AddError(res, "E070",
                 Literal("DETERMINISM requires level field (strict, structural, or semantic)"),
                 loc)
        ELSE IF st.level \notin ValidLevels
        THEN AddError(res, "E070",
                 Sprintf("DETERMINISM level must be strict, structural, or semantic, got: %s",
                         <<st.level>>), loc)
        ELSE res

\* the two versions of the check
Variants == {"level-only", "all-fields"}

RECURSIVE DeterminismLoop(_, _, _)
DeterminismLoop(fns, res, v) ==
    IF fns = <<>> THEN res
    ELSE DeterminismLoop(Tail(fns),
             IF HasDeterminism(Head(fns))
             THEN IF v = "level-only"
                  THEN checkDeterminismStructure(Head(fns), res)
                  ELSE checkDeterminismStructureFields(Head(fns), res)
             ELSE res,
             v)

DeterminismCheck(sp, res, v) == DeterminismLoop(sp.Functions, res, v)

----------------------------------------------------------------------------
(* lint: Linter.Lint                                                       *)

RECURSIVE ParseWarningLoop(_, _)
ParseWarningLoop(ws, res) ==
    IF ws = <<>> THEN res
    ELSE ParseWarningLoop(Tail(ws), AddWarning(res, "W001", Head(ws), <<"p","a","r","s","e">>))

countTotalExamples(sp) ==
    SumSeq([i \in 1..Len(sp.Functions) |->
               LET ex == GetExamples(sp.Functions[i])
               IN  IF ex # <<>> THEN CountExamples(ex) ELSE 0])

countTotalBranches(sp) ==
    SumSeq([i \in 1..Len(sp.Functions) |->
               LET rules == GetRules(sp.Functions[i])
               IN  IF rules # <<>> THEN CountBranches(rules) ELSE 0])

\* float64(examples) / float64(branches) * 100, kept as the exact fraction
\* <<numerator, denominator>>
CoveragePercent(examples, branches) == <<examples * 100, branches>>

\* a slip: the statistics are filled in only for a result without errors
SetStatsWhenValid(sp, res) ==
    LET examples == countTotalExamples(sp)
        branches == countTotalBranches(sp)
    IN  IF ~res.Valid THEN res
        ELSE [res EXCEPT !.Stats =
            [ Functions |-> Len(sp.Functions),
              Examples  |-> examples,
              Branches  |-> branches,
              CoveragePercent |-> IF branches > 0
                                  THEN CoveragePercent(examples, branches)
                                  ELSE @.CoveragePercent ]]

SetStats(sp, res) ==
    LET examples == countTotalExamples(sp)
        branches == countTotalBranches(sp)
    IN  [res EXCEPT !.Stats =
            [ Functions |-> Len(sp.Functions),
              Examples  |-> examples,
              Branches  |-> branches,
              CoveragePercent |-> IF branches > 0
                                  THEN CoveragePercent(examples, branches)
                                  ELSE @.CoveragePercent ]]


\* the name Lint is called with
FileName == <<"i","n","p","u","t">>

\* the LintResult before Lint has created one
NoResult == [NewLintResult(<<>>) EXCEPT !.Valid = FALSE]

\* r := result.NewLintResult(name); Parse: spec := &ParsedSpec{...}
LintStart ==
    /\ pc = "start"
    /\ r' = NewLintResult(FileName)
    /\ spec' = EmptySpec
    /\ pc' = "find"
    /\ UNCHANGED <<text, cfg, matches, landmarks, op, ran, other, http, cli>>

\* Parse: matches := p.findLandmarks(text); if len(matches) == 0 { return spec }
ParseFind ==
    /\ pc = "find"
    /\ matches' = findLandmarks(text)
    /\ pc' = IF Len(matches') = 0 THEN "warnings" ELSE "extract"
    /\ UNCHANGED <<text, cfg, landmarks, spec, r, op, ran, other, http, cli>>

\* Parse: landmarks := p.extractLandmarkContent(text, matches)
ParseExtract ==
    /\ pc = "extract"
    /\ landmarks' = extractLandmarkContent(text, matches)
    /\ pc' = "organize"
    /\ UNCHANGED <<text, cfg, matches, spec, r, op, ran, other, http, cli>>

\* Parse: p.organizeLandmarks(spec, landmarks); return spec
ParseOrganize ==
    /\ pc = "organize"
    /\ spec' = organizeLandmarks(spec, landmarks)
    /\ pc' = "warnings"
    /\ UNCHANGED <<text, cfg, matches, landmarks, r, op, ran, other, http, cli>>

\* for _, w := range spec.ParseWarnings { r.AddWarning("W001", w, "parse") }
LintParseWarnings ==
    /\ pc = "warnings"
    /\ r' = ParseWarningLoop(spec.ParseWarnings, r)
    /\ pc' = "structural"
    /\ UNCHANGED <<text, cfg, matches, landmarks, spec, op, ran, other, http, cli>>

LintStructural ==
    /\ pc = "structural"
    /\ r' = StructuralCheck(spec, r)
    /\ pc' = "complexity"
    /\ UNCHANGED <<text, cfg, matches, landmarks, spec, op, ran, other, http, cli>>

LintComplexity ==
    /\ pc = "complexity"
    /\ r' = ComplexityCheck(spec, r, New(cfg))
    /\ pc' = "evolution"
    /\ UNCHANGED <<text, cfg, matches, landmarks, spec, op, ran, other, http, cli>>

LintEvolution ==
    /\ pc = "evolution"
    /\ r' = EvolutionCheck(spec, r)
    /\ pc' = "determinism"
    /\ UNCHANGED <<text, cfg, matches, landmarks, spec, op, ran, other, http, cli>>

LintDeterminism ==
    /\ pc = "determinism"
    /\ \E v \in Variants : r' = DeterminismCheck(spec, r, v)
    /\ pc' = "stats"
    /\ UNCHANGED <<text, cfg, matches, landmarks, spec, op, ran, other, http, cli>>

LintStats ==
    /\ pc = "stats"
    /\ r' = SetStats(spec, r)
    /\ pc' = "done"
    /\ UNCHANGED <<text, cfg, matches, landmarks, spec, op, ran, other, http, cli>>

Next ==
    \/ LintStart
    \/ ParseFind
    \/ ParseExtract
    \/ ParseOrganize
    \/ LintParseWarnings
    \/ LintStructural
    \/ LintComplexity
    \/ LintEvolution
    \/ LintDeterminism
    \/ LintStats

----------------------------------------------------------------------------
(* Inputs                                                                  *)

RECURSIVE Join(_)
Join(lines) ==
    IF lines = <<>> THEN <<>>
    ELSE IF Len(lines) = 1 THEN lines[1]
    ELSE Head(lines) \o <<"\n">> \o Join(Tail(lines))

SeqsUpTo(S, n) == UNION {[1..k -> S] : k \in 0..n}

\* A second invocation of Lint on the same Linter: its locals, as a record
NoInvocation ==
    [ name |-> <<>>, text |-> <<>>, pc |-> "idle", matches |-> <<>>, landmarks |-> <<>>,
      spec |-> EmptySpec, r |-> NoResult, stderr |-> <<>> ]

\* Lint called with name n on content t
NamedInvocation(n, t) == [NoInvocation EXCEPT !.name = n, !.text = t, !.pc = "start"]

Invocation(t) == NamedInvocation(FileName, t)

\* the next statement of Lint in that invocation; the Linter contributes its
\* configuration and nothing else
LintSteps(inv, c) ==
    IF inv.pc = "start"
    THEN {[inv EXCEPT !.r = NewLintResult(inv.name), !.spec = EmptySpec, !.pc = "find"]}
    ELSE IF inv.pc = "find"
    THEN LET found == findLandmarks(inv.text)
         IN  {[inv EXCEPT !.matches = found,
                          !.pc = IF Len(found) = 0 THEN "warnings" ELSE "extract"]}
    ELSE IF inv.pc = "extract"
    THEN {[inv EXCEPT !.landmarks = extractLandmarkContent(inv.text, inv.matches),
                      !.pc = "organize"]}
    ELSE IF inv.pc = "organize"
    THEN {[inv EXCEPT !.spec = organizeLandmarks(inv.spec, inv.landmarks), !.pc = "warnings"]}
    ELSE IF inv.pc = "warnings"
    THEN {[inv EXCEPT !.r = ParseWarningLoop(inv.spec.ParseWarnings, inv.r), !.pc = "structural"]}
    ELSE IF inv.pc = "structural"
    THEN {[inv EXCEPT !.r = StructuralCheck(inv.spec, inv.r), !.pc = "complexity"]}
    ELSE IF inv.pc = "complexity"
    THEN {[inv EXCEPT !.r = ComplexityCheck(inv.spec, inv.r, New(c)), !.pc = "evolution"]}
    ELSE IF inv.pc = "evolution"
    THEN {[inv EXCEPT !.r = EvolutionCheck(inv.spec, inv.r), !.pc = "determinism"]}
    ELSE IF inv.pc = "determinism"
    THEN {[inv EXCEPT !.r = DeterminismCheck(inv.spec, inv.r, v), !.pc = "stats"] : v \in Variants}
    ELSE IF inv.pc = "stats"
    THEN {[inv EXCEPT !.r = SetStats(inv.spec, inv.r), !.pc = "done"]}
    ELSE {}

\* a slip: the parser keeps the ParsedSpec it is filling in a field of its own,
\* which every invocation on the Linter then shares
OtherStepSharedSpec ==
    /\ other.pc \notin {"idle", "done"}
    /\ other' \in LintSteps(other, cfg)
    /\ spec' = IF other.pc = "organize" THEN other'.spec ELSE spec
    /\ UNCHANGED <<text, cfg, pc, matches, landmarks, r, op, ran, http, cli>>

\* one statement of the second invocation
OtherStep ==
    /\ other.pc \notin {"idle", "done"}
    /\ other' \in LintSteps(other, cfg)
    /\ UNCHANGED <<text, cfg, pc, matches, landmarks, spec, r, op, ran, http, cli>>

\* The web server: lintHandler for /api/lint.  `http` holds one request and the
\* handler's progress on it.
NoRequest ==
    [ method |-> "", body |-> <<>>, fails |-> FALSE, pc |-> "idle", data |-> <<>>,
      Spec |-> <<>>, status |-> 0, calls |-> 0 ]

Request(method, body, fails) ==
    [NoRequest EXCEPT !.method = method, !.body = body, !.fails = fails, !.pc = "method"]

\* io.LimitReader(r.Body, 1<<20)
BodyLimit == 1048576

\* io.ReadAll on the limited body: the bytes read and whether reading failed
ReadAll(req) ==
    [ err |-> req.fails,
      data |-> IF Len(req.body) > BodyLimit THEN SubSeq(req.body, 1, BodyLimit) ELSE req.body ]

IsJSONSpace(c) == c \in {" ", "\t", "\n", "\r"}

\* the value of a one-member object's member: a string without escapes, a
\* number of digits, or null; <<kind, text>>, kind "bad" for anything else
JSONValue(val) ==
    IF val = <<"n","u","l","l">> THEN <<"null", <<>>>>
    ELSE IF val # <<>> /\ \A i \in 1..Len(val) : val[i] \in Digit THEN <<"number", val>>
    ELSE IF /\ Len(val) >= 2 /\ val[1] = "\"" /\ val[Len(val)] = "\""
            /\ \A i \in 2..(Len(val) - 1) : val[i] \notin {"\"", "\\"} /\ val[i] # "\n"
    THEN <<"string", SubSeq(val, 2, Len(val) - 1)>>
    ELSE <<"bad", <<>>>>

\* json.Unmarshal(body, &req) for req of type struct { Spec string `json:"spec"` },
\* on null, the empty object and objects of one member: err is set for text
\* that is not JSON and for a spec member that is not a string or null; the
\* member's name is matched without regard to case; other members are ignored
Unmarshal(body) ==
    LET first == {i \in 1..Len(body) : ~IsJSONSpace(body[i])}
        b == IF first = {} THEN <<>> ELSE SubSeq(body, SetMin(first), SetMax(first))
        fail == [err |-> TRUE, Spec |-> <<>>]
        ok(s) == [err |-> FALSE, Spec |-> s]
    IN  IF b = <<"n","u","l","l">> \/ b = <<"{","}">> THEN ok(<<>>)
        ELSE IF ~(Len(b) >= 6 /\ b[1] = "{" /\ b[2] = "\"" /\ b[Len(b)] = "}") THEN fail
        ELSE LET quotes == {i \in 3..Len(b) : b[i] = "\""}
             IN  IF quotes = {} THEN fail
                 ELSE LET close == SetMin(quotes)
                          key   == SubSeq(b, 3, close - 1)
                          rest  == SubSeq(b, close + 1, Len(b) - 1)
                      IN  IF rest = <<>> \/ rest[1] # ":" THEN fail
                          ELSE LET v == JSONValue(Tail(rest))
                               IN  IF v[1] = "bad" THEN fail
                                   ELSE IF ToLower(key) # <<"s","p","e","c">> THEN ok(<<>>)
                                   ELSE IF v[1] = "string" THEN ok(v[2])
                                   ELSE IF v[1] = "null" THEN ok(<<>>)
                                   ELSE fail

\* if r.Method != http.MethodPost { http.Error(w, ..., 405); return }
HandlerMethod ==
    /\ http.pc = "method"
    /\ http' = IF http.method # "POST"
               THEN [http EXCEPT !.status = 405, !.pc = "done"]
               ELSE [http EXCEPT !.pc = "read"]
    /\ UNCHANGED <<text, cfg, pc, matches, landmarks, spec, r, op, ran, other, cli>>

\* body, err := io.ReadAll(io.LimitReader(r.Body, 1<<20)); if err != nil { 400 }
HandlerRead ==
    /\ http.pc = "read"
    /\ http' = IF ReadAll(http).err
               THEN [http EXCEPT !.status = 400, !.pc = "done"]
               ELSE [http EXCEPT !.data = ReadAll(http).data, !.pc = "unmarshal"]
    /\ UNCHANGED <<text, cfg, pc, matches, landmarks, spec, r, op, ran, other, cli>>

\* if err := json.Unmarshal(body, &req); err != nil { 400 }
HandlerUnmarshal ==
    /\ http.pc = "unmarshal"
    /\ http' = IF Unmarshal(http.data).err
               THEN [http EXCEPT !.status = 400, !.pc = "done"]
               ELSE [http EXCEPT !.Spec = Unmarshal(http.data).Spec, !.pc = "spec"]
    /\ UNCHANGED <<text, cfg, pc, matches, landmarks, spec, r, op, ran, other, cli>>

\* a slip: the empty spec is handed to the linter as well
HandlerSpecLenient ==
    /\ http.pc = "spec"
    /\ http' = [http EXCEPT !.pc = "lint"]
    /\ UNCHANGED <<text, cfg, pc, matches, landmarks, spec, r, op, ran, other, cli>>

\* if req.Spec == "" { 400 }
HandlerSpec ==
    /\ http.pc = "spec"
    /\ http' = IF http.Spec = <<>>
               THEN [http EXCEPT !.status = 400, !.pc = "done"]
               ELSE [http EXCEPT !.pc = "lint"]
    /\ UNCHANGED <<text, cfg, pc, matches, landmarks, spec, r, op, ran, other, cli>>

\* result := linter.Lint("input", req.Spec): the call
HandlerLint ==
    /\ http.pc = "lint"
    /\ pc = "idle"
    /\ text' = http.Spec
    /\ pc' = "start"
    /\ http' = [http EXCEPT !.calls = @ + 1, !.pc = "linting"]
    /\ UNCHANGED <<cfg, matches, landmarks, spec, r, op, ran, other, cli>>

\* Lint has returned: json.NewEncoder(w).Encode(result), status 200
HandlerRespond ==
    /\ http.pc = "linting"
    /\ pc = "done"
    /\ http' = [http EXCEPT !.status = 200, !.pc = "done"]
    /\ UNCHANGED <<text, cfg, pc, matches, landmarks, spec, r, op, ran, other, cli>>

\* a slip: the MaxInputs flag is not handed on to the complexity checker
NewLinterRulesOnly(config) ==
    [ DefaultComplexityConfig EXCEPT
        !.MaxRules  = IF config.MaxRules > 0 THEN config.MaxRules ELSE @ ]

\* The command-line program.  LinterConfig: [MaxRules, MaxInputs, NoLLM, Verbose]
\* NewLinter: the ComplexityConfig its complexity checker is built with
NewLinter(config) ==
    [ DefaultComplexityConfig EXCEPT
        !.MaxRules  = IF config.MaxRules > 0 THEN config.MaxRules ELSE @,
        !.MaxInputs = IF config.MaxInputs > 0 THEN config.MaxInputs ELSE @ ]

SemanticNote == <<"N","o","t","e",":"," ","S","e","m","a","n","t","i","c"," ","c","h","e","c","k","s"," ","n","o","t"," ","y","e","t"," ","i","m","p","l","e","m","e","n","t","e","d">>

\* the next statement of the program's own Linter.Lint(input) in an invocation
CliLintSteps(inv, config) ==
    IF inv.pc = "start"
    THEN {[inv EXCEPT !.r = NewLintResult(inv.name), !.spec = EmptySpec, !.pc = "find"]}
    ELSE IF inv.pc = "find"
    THEN LET found == findLandmarks(inv.text)
         IN  {[inv EXCEPT !.matches = found,
                          !.pc = IF Len(found) = 0 THEN "warnings" ELSE "extract"]}
    ELSE IF inv.pc = "extract"
    THEN {[inv EXCEPT !.landmarks = extractLandmarkContent(inv.text, inv.matches),
                      !.pc = "organize"]}
    ELSE IF inv.pc = "organize"
    THEN {[inv EXCEPT !.spec = organizeLandmarks(inv.spec, inv.landmarks), !.pc = "warnings"]}
    ELSE IF inv.pc = "warnings"
    THEN {[inv EXCEPT !.r = ParseWarningLoop(inv.spec.ParseWarnings, inv.r), !.pc = "structural"]}
    ELSE IF inv.pc = "structural"
    THEN {[inv EXCEPT !.r = StructuralCheck(inv.spec, inv.r), !.pc = "complexity"]}
    ELSE IF inv.pc = "complexity"
    THEN {[inv EXCEPT !.r = ComplexityCheck(inv.spec, inv.r, NewLinter(config)),
                      !.pc = "evolution"]}
    ELSE IF inv.pc = "evolution"
    THEN {[inv EXCEPT !.r = EvolutionCheck(inv.spec, inv.r), !.pc = "determinism"]}
    ELSE IF inv.pc = "determinism"
    THEN {[inv EXCEPT !.r = DeterminismCheck(inv.spec, inv.r, v), !.pc = "stats"] : v \in Variants}
    ELSE IF inv.pc = "stats"
    THEN {[inv EXCEPT !.r = SetStats(inv.spec, inv.r), !.pc = "semantic"]}
    ELSE IF inv.pc = "semantic"
    THEN {[inv EXCEPT !.stderr = IF ~config.NoLLM /\ config.Verbose
                                 THEN Append(@, SemanticNote) ELSE @,
                      !.pc = "done"]}
    ELSE {}

\* a file named on the command line, or standard input
File(path, readable, content) == [path |-> path, readable |-> readable, content |-> content]

StdinName == <<"<","s","t","d","i","n",">">>

\* the program before it runs
NoRun ==
    [ args |-> <<>>, stdin |-> File(<<>>, FALSE, <<>>),
      config |-> [MaxRules |-> 0, MaxInputs |-> 0, NoLLM |-> FALSE, Verbose |-> FALSE],
      pc |-> "idle", i |-> 1, inputs |-> <<>>, results |-> <<>>,
      inv |-> NoInvocation, out |-> "", exit |-> -1 ]

Run(args, stdin, config) ==
    [NoRun EXCEPT !.args = args, !.stdin = stdin, !.config = config, !.pc = "read"]

\* a slip: a file that cannot be read is left out and the run goes on
CliReadSkipsUnreadable ==
    /\ cli.pc = "read"
    /\ cli' =
         IF Len(cli.args) = 0
         THEN IF ~cli.stdin.readable
              THEN [cli EXCEPT !.exit = 2, !.pc = "exited"]
              ELSE [cli EXCEPT !.inputs = <<[Name |-> StdinName, Content |-> cli.stdin.content]>>,
                               !.i = 1, !.pc = "lint"]
         ELSE IF cli.i > Len(cli.args)
         THEN [cli EXCEPT !.i = 1, !.pc = "lint"]
         ELSE IF ~cli.args[cli.i].readable
         THEN [cli EXCEPT !.i = @ + 1]
         ELSE [cli EXCEPT !.inputs = Append(@, [Name |-> cli.args[cli.i].path,
                                                Content |-> cli.args[cli.i].content]),
                          !.i = @ + 1]
    /\ UNCHANGED <<text, cfg, pc, matches, landmarks, spec, r, op, ran, other, http>>

\* runLint: read standard input, or one more of the named files; an input
\* that cannot be read makes runLint return the error and main exit with 2
CliRead ==
    /\ cli.pc = "read"
    /\ cli' =
         IF Len(cli.args) = 0
         THEN IF ~cli.stdin.readable
              THEN [cli EXCEPT !.exit = 2, !.pc = "exited"]
              ELSE [cli EXCEPT !.inputs = <<[Name |-> StdinName, Content |-> cli.stdin.content]>>,
                               !.i = 1, !.pc = "lint"]
         ELSE IF cli.i > Len(cli.args)
         THEN [cli EXCEPT !.i = 1, !.pc = "lint"]
         ELSE IF ~cli.args[cli.i].readable
         THEN [cli EXCEPT !.exit = 2, !.pc = "exited"]
         ELSE [cli EXCEPT !.inputs = Append(@, [Name |-> cli.args[cli.i].path,
                                                Content |-> cli.args[cli.i].content]),
                          !.i = @ + 1]
    /\ UNCHANGED <<text, cfg, pc, matches, landmarks, spec, r, op, ran, other, http>>

\* for _, input := range inputs { r := linter.Lint(input) ...: the call
CliLintCall ==
    /\ cli.pc = "lint"
    /\ cli' = IF cli.i > Len(cli.inputs)
              THEN [cli EXCEPT !.pc = "output"]
              ELSE [cli EXCEPT !.inv = NamedInvocation(cli.inputs[cli.i].Name,
                                                       cli.inputs[cli.i].Content),
                               !.pc = "linting"]
    /\ UNCHANGED <<text, cfg, pc, matches, landmarks, spec, r, op, ran, other, http>>

\* one statement of Lint
CliLintStep ==
    /\ cli.pc = "linting"
    /\ cli.inv.pc # "done"
    /\ \E next \in CliLintSteps(cli.inv, cli.config) : cli' = [cli EXCEPT !.inv = next]
    /\ UNCHANGED <<text, cfg, pc, matches, landmarks, spec, r, op, ran, other, http>>

\* ... results = append(results, *r) }
CliLintReturn ==
    /\ cli.pc = "linting"
    /\ cli.inv.pc = "done"
    /\ cli' = [cli EXCEPT !.results = Append(@, cli.inv.r), !.i = @ + 1, !.pc = "lint"]
    /\ UNCHANGED <<text, cfg, pc, matches, landmarks, spec, r, op, ran, other, http>>

\* outputSingle or outputMultiple
CliOutput ==
    /\ cli.pc = "output"
    /\ cli' = [cli EXCEPT !.out = IF Len(cli.results) = 1 THEN "single" ELSE "multiple",
                          !.pc = "exit"]
    /\ UNCHANGED <<text, cfg, pc, matches, landmarks, spec, r, op, ran, other, http>>

\* for _, r := range results { if !r.Valid { os.Exit(1) } }; return nil
CliExit ==
    /\ cli.pc = "exit"
    /\ cli' = [cli EXCEPT !.exit = IF \E k \in 1..Len(cli.results) : ~cli.results[k].Valid
                                   THEN 1 ELSE 0,
                          !.pc = "exited"]
    /\ UNCHANGED <<text, cfg, pc, matches, landmarks, spec, r, op, ran, other, http>>

\* the state in which Lint is called on `t` by a linter built from `c`
Called(t, c) ==
    /\ text = t
    /\ cfg = c
    /\ pc = "start"
    /\ matches = <<>>
    /\ landmarks = <<>>
    /\ spec = EmptySpec
    /\ r = NoResult
    /\ op = "none"
    /\ ran = <<>>
    /\ other = NoInvocation
    /\ http = NoRequest
    /\ cli = NoRun

DefaultConfig == [MaxRules |-> 0, MaxInputs |-> 0]

\* Documents: up to MaxDocLines lines, each one of DocLines
MaxDocLines == 3

DocLines ==
    { <<"F","U","N","C","T","I","O","N",":"," ","f","(","a",")"," ","-",">"," ","r">>,
      <<"R","U","L","E","S",":">>,
      <<"D","A","T","A",":"," ","T">>,
      <<"C","O","N","S","T","R","A","I","N","T",":"," ","c">>,
      <<" "," ","E","V","A","L",":"," ","e">>,
      <<"N","O","T","E","S",":"," ","n">>,
      <<>>,
      <<"E","X","A","M","P","L","E","S",":"," ","(","1",")"," ","-",">"," ","2">> }

DocTexts == {Join(ls) : ls \in SeqsUpTo(DocLines, MaxDocLines)}

InitDoc == \E t \in DocTexts : Called(t, DefaultConfig)

SpecDoc == InitDoc /\ [][Next]_vars


\* Function headers, by position in the document
FnHeaders == << <<"F","U","N","C","T","I","O","N",":"," ","f","(","a",")"," ","-",">"," ","r">>, <<"F","U","N","C","T","I","O","N",":"," ","g","(",")"," ","-",">"," ","r">>, <<"F","U","N","C","T","I","O","N",":"," ","h","(","x",","," ","y",")"," ","→"," ","r">> >>
FnHeader(i) == FnHeaders[((i - 1) % Len(FnHeaders)) + 1]

\* Functions with any subset of the four required landmarks
MaxFns == 2

RequiredLines ==
    << <<"R","U","L","E","S",":"," ","-"," ","a">>, <<"D","O","N","E","_","W","H","E","N",":"," ","-"," ","b">>, <<"E","X","A","M","P","L","E","S",":"," ","(","1",")"," ","-",">"," ","2">>, <<"E","R","R","O","R","S",":"," ","-"," ","c">> >>

FnWith(i, present) ==
    <<FnHeader(i)>> \o SelectSeq(RequiredLines, LAMBDA l : \E k \in present : RequiredLines[k] = l)

RECURSIVE Flatten(_)
Flatten(ss) == IF ss = <<>> THEN <<>> ELSE Head(ss) \o Flatten(Tail(ss))

RequiredTexts ==
    UNION { { Join(Flatten([i \in 1..n |-> FnWith(i, choice[i])])) :
                choice \in [1..n -> SUBSET (1..4)] } : n \in 1..MaxFns }

InitRequired == \E t \in RequiredTexts : Called(t, DefaultConfig)

SpecRequired == InitRequired /\ [][Next]_vars

\* One function f, then up to MaxCovLines lines of RULES and EXAMPLES material
MaxCovLines == 3

CovLines ==
    { <<"R","U","L","E","S",":">>,
      <<"R","U","L","E","S",":"," ","-"," ","i","f"," ","x">>,
      <<" "," ","-"," ","i","f"," ","x"," ","o","r"," ","y">>,
      <<" "," ","-"," ","w","h","e","n"," ","z">>,
      <<"E","X","A","M","P","L","E","S",":">>,
      <<"E","X","A","M","P","L","E","S",":"," ","(","1",")"," ","-",">"," ","2">>,
      <<" "," ","(","2",")"," ","-",">"," ","3">>,
      <<"F","U","N","C","T","I","O","N",":"," ","g","(",")"," ","-",">"," ","r">> }

CovTexts == {Join(<<FnHeader(1)>> \o ls) : ls \in SeqsUpTo(CovLines, MaxCovLines)}

InitCoverage == \E t \in CovTexts : Called(t, DefaultConfig)

SpecCoverage == InitCoverage /\ [][Next]_vars

\* One function f with n RULES items, dash-prefixed or plain, optionally
\* followed by a function g with one item or with MaxRuleItems - 1 items;
\* linters built with each of RuleLimits as Config.MaxRules
MaxRuleItems == 17

RuleLimits == {-1, 0, 1, 2, 16}

RECURSIVE Repeat(_, _)
Repeat(line, n) == IF n = 0 THEN <<>> ELSE <<line>> \o Repeat(line, n - 1)

RulesBlock(item, n) == << <<"R","U","L","E","S",":">> >> \o Repeat(item, n)

RuleItemStyles == { <<" "," ","-"," ","a">>, <<" "," ","a"," ","b">> }

RulesTexts ==
    { Join(<<FnHeader(1)>> \o RulesBlock(item, n) \o tail) :
        item \in RuleItemStyles, n \in 0..MaxRuleItems,
        tail \in { <<>>,
                   <<FnHeader(2)>> \o RulesBlock( <<" "," ","-"," ","a">>, 1),
                   <<FnHeader(2)>> \o RulesBlock( <<" "," ","-"," ","a">>, MaxRuleItems - 1) } }

InitRules ==
    \E t \in RulesTexts, limit \in RuleLimits :
        Called(t, [MaxRules |-> limit, MaxInputs |-> 0])

SpecRules == InitRules /\ [][Next]_vars


\* One function f, then up to MaxEvoLines lines of BASELINE and EVAL material
MaxEvoLines == 3

EvoLines ==
    { <<"B","A","S","E","L","I","N","E",":">>,
      <<"B","A","S","E","L","I","N","E",":"," ","r","e","f","e","r","e","n","c","e",":"," ","v","1">>,
      <<" "," ","p","r","e","s","e","r","v","e",":">>,
      <<" "," ","-"," ","k","e","e","p">>,
      <<"E","V","A","L",":"," ","p","r","e","s","e","r","v","e",":"," ","p","a","s","s","^","3">>,
      <<"E","V","A","L",":">>,
      <<"F","U","N","C","T","I","O","N",":"," ","g","(",")"," ","-",">"," ","r">> }

EvoTexts == {Join(<<FnHeader(1)>> \o ls) : ls \in SeqsUpTo(EvoLines, MaxEvoLines)}

InitEvolution == \E t \in EvoTexts : Called(t, DefaultConfig)

SpecEvolution == InitEvolution /\ [][Next]_vars

\* One function f, then up to MaxDetLines lines of DETERMINISM material
MaxDetLines == 3

DetLines ==
    { <<"D","E","T","E","R","M","I","N","I","S","M",":">>,
      <<"D","E","T","E","R","M","I","N","I","S","M",":"," ","l","e","v","e","l",":"," ","s","e","m","a","n","t","i","c">>,
      <<" "," ","l","e","v","e","l",":"," ","s","t","r","i","c","t">>,
      <<" "," ","l","e","v","e","l",":"," ","f","u","z","z","y">>,
      <<" "," ","l","e","v","e","l",":">>,
      <<" "," ","s","e","e","d",":"," ","4","2">>,
      <<" "," ","v","a","r","y",":"," ","x">>,
      <<" "," ","s","t","a","b","l","e",":"," ","y">>,
      <<"F","U","N","C","T","I","O","N",":"," ","g","(",")"," ","-",">"," ","r">> }

DetTexts == {Join(<<FnHeader(1)>> \o ls) : ls \in SeqsUpTo(DetLines, MaxDetLines)}

InitDeterminism == \E t \in DetTexts : Called(t, DefaultConfig)

SpecDeterminism == InitDeterminism /\ [][Next]_vars


\* One function f, optionally with a complete BASELINE block, then an EVAL
\* landmark followed by up to MaxEvalLines field lines
MaxEvalLines == 3

BaselineComplete ==
    << <<"B","A","S","E","L","I","N","E",":"," ","r","e","f","e","r","e","n","c","e",":"," ","v","1">>, <<" "," ","p","r","e","s","e","r","v","e",":">>, <<" "," ","-"," ","k","e","e","p">>,
       <<" "," ","e","v","o","l","v","e",":">>, <<" "," ","-"," ","g","r","o","w">> >>

EvalLines ==
    { <<" "," ","p","r","e","s","e","r","v","e",":"," ","p","a","s","s","^","3">>,
      <<" "," ","p","r","e","s","e","r","v","e",":"," ","p","a","s","s","^">>,
      <<" "," ","p","r","e","s","e","r","v","e",":">>,
      <<" "," ","e","v","o","l","v","e",":"," ","p","a","s","s","@","5">>,
      <<" "," ","e","v","o","l","v","e",":"," ","p","a","s","s","@","5","x">>,
      <<" "," ","e","v","o","l","v","e",":"," ","p","a","s","s","^","5">>,
      <<" "," ","g","r","a","d","i","n","g",":"," ","c","o","d","e">>,
      <<" "," ","g","r","a","d","i","n","g",":"," ","m","o","d","e","l">>,
      <<" "," ","g","r","a","d","i","n","g",":"," ","o","u","t","c","o","m","e">>,
      <<" "," ","g","r","a","d","i","n","g",":"," ","h","u","m","a","n">> }

EvalTexts ==
    { Join(<<FnHeader(1)>> \o baseline \o << <<"E","V","A","L",":">> >> \o ls) :
        baseline \in {<<>>, BaselineComplete}, ls \in SeqsUpTo(EvalLines, MaxEvalLines) }

InitEval == \E t \in EvalTexts : Called(t, DefaultConfig)

SpecEval == InitEval /\ [][Next]_vars

\* One function f with a BASELINE landmark, with or without a reference on
\* the landmark's line, followed by up to MaxBaseLines lines
MaxBaseLines == 4

BaseLines ==
    { <<" "," ","r","e","f","e","r","e","n","c","e",":"," ","v","2">>,
      <<" "," ","p","r","e","s","e","r","v","e",":">>,
      <<" "," ","e","v","o","l","v","e",":">>,
      <<" "," ","-"," ","i","t","e","m">>,
      <<" "," ","n","o","t","e">> }

BaseTexts ==
    { Join(<<FnHeader(1), first>> \o ls) :
        first \in { <<"B","A","S","E","L","I","N","E",":">>, <<"B","A","S","E","L","I","N","E",":"," ","r","e","f","e","r","e","n","c","e",":"," ","v","1">> },
        ls \in SeqsUpTo(BaseLines, MaxBaseLines) }

InitBaseline == \E t \in BaseTexts : Called(t, DefaultConfig)

SpecBaseline == InitBaseline /\ [][Next]_vars

\* Documents of up to MaxSigLines lines with well-formed and malformed
\* FUNCTION signatures, a DATA block and function-scoped landmarks
MaxSigLines == 3

SigLines ==
    { <<"F","U","N","C","T","I","O","N",":">>,
      <<"F","U","N","C","T","I","O","N",":"," ","b","r","o","k","e","n">>,
      <<"F","U","N","C","T","I","O","N",":"," ","f","(","a",")"," ","=",">"," ","r">>,
      <<"F","U","N","C","T","I","O","N",":"," ","g","(","x",","," ","y",")"," ","→"," ","T">>,
      <<"D","A","T","A",":"," ","T">>,
      <<"R","U","L","E","S",":"," ","-"," ","a">>,
      <<"E","X","A","M","P","L","E","S",":"," ","(","1",")"," ","-",">"," ","2">> }

SigTexts == {Join(ls) : ls \in SeqsUpTo(SigLines, MaxSigLines)}

InitSignature == \E t \in SigTexts : Called(t, DefaultConfig)

SpecSignature == InitSignature /\ [][Next]_vars

\* Documents of up to MaxTypeLines lines: DATA blocks and functions whose
\* return types name them in several spellings, a builtin, an unknown type
MaxTypeLines == 3

TypeLines ==
    { <<"D","A","T","A",":"," ","U","s","e","r">>,
      <<"D","A","T","A",":"," ","u","s","e","r">>,
      <<" "," ","i","d",":"," ","s","t","r","i","n","g">>,
      <<"F","U","N","C","T","I","O","N",":"," ","f","(","a",")"," ","-",">"," ","U","s","e","r">>,
      <<"F","U","N","C","T","I","O","N",":"," ","g","(",")"," ","-",">"," ","u","s","e","r">>,
      <<"F","U","N","C","T","I","O","N",":"," ","h","(",")"," ","-",">"," ","l","i","s","t"," ","o","f"," ","U","s","e","r">>,
      <<"F","U","N","C","T","I","O","N",":"," ","k","(",")"," ","→"," ","S","e","t","_","O","f","_","u","s","e","r">>,
      <<"F","U","N","C","T","I","O","N",":"," ","m","(",")"," ","-",">"," ","S","t","r","i","n","g">>,
      <<"F","U","N","C","T","I","O","N",":"," ","n","(",")"," ","-",">"," ","C","u","s","t","o","m","e","r">> }

TypeTexts == {Join(ls) : ls \in SeqsUpTo(TypeLines, MaxTypeLines)}

InitTypes == \E t \in TypeTexts : Called(t, DefaultConfig)

SpecTypes == InitTypes /\ [][Next]_vars

\* Documents of up to MaxStatFns functions, each with DONE_WHEN and ERRORS and
\* with one of StatRules and one of StatExamples (the empty choice leaves
\* the landmark out): results with and without findings, with fewer, as many
\* and more examples than branches
MaxStatFns == 2

StatRules ==
    { <<>>,
      << <<"R","U","L","E","S",":"," ","-"," ","a">> >>,
      << <<"R","U","L","E","S",":"," ","-"," ","i","f"," ","x"," ","o","r"," ","y">> >>,
      << <<"R","U","L","E","S",":"," ","-"," ","i","f"," ","a">>, <<" "," ","-"," ","w","h","e","n"," ","b">>, <<" "," ","-"," ","i","f"," ","c"," ","o","t","h","e","r","w","i","s","e"," ","d">> >> }

StatExamples ==
    { <<>>,
      << <<"E","X","A","M","P","L","E","S",":"," ","(","1",")"," ","-",">"," ","2">> >>,
      << <<"E","X","A","M","P","L","E","S",":"," ","(","1",")"," ","-",">"," ","2">>, <<" "," ","(","2",")"," ","→"," ","3">>, <<" "," ","n","o","t","e">>, <<" "," ","(","3",")"," ","-",">"," ","4">> >> }

StatFn(i, rules, examples) ==
    <<FnHeader(i)>> \o rules \o << <<"D","O","N","E","_","W","H","E","N",":"," ","-"," ","b">> >> \o examples \o << <<"E","R","R","O","R","S",":"," ","-"," ","c">> >>

StatTexts ==
    UNION { { Join(Flatten([i \in 1..n |-> StatFn(i, rs[i], es[i])])) :
                rs \in [1..n -> StatRules], es \in [1..n -> StatExamples] } : n \in 0..MaxStatFns }

InitStats == \E t \in StatTexts : Called(t, DefaultConfig)

SpecStats == InitStats /\ [][Next]_vars

\* The four checkers run once each, in any order, against the result Lint
\* created, on the parse of a document: one function f with two branches in
\* its RULES, then up to MaxOrderLines lines that give each checker something
\* to report
MaxOrderLines == 3

OrderLines ==
    { <<"E","X","A","M","P","L","E","S",":"," ","(","1",")"," ","-",">"," ","2">>,
      <<"B","A","S","E","L","I","N","E",":"," ","r","e","f","e","r","e","n","c","e",":"," ","v","1">>,
      <<"E","V","A","L",":"," ","p","r","e","s","e","r","v","e",":"," ","x">>,
      <<"D","E","T","E","R","M","I","N","I","S","M",":"," ","l","e","v","e","l",":"," ","m","a","y","b","e">>,
      <<"D","A","T","A",":"," ","T">> }

OrderTexts ==
    {Join(<<FnHeader(1), <<"R","U","L","E","S",":"," ","-"," ","i","f"," ","x"," ","o","r"," ","y">> >> \o ls) : ls \in SeqsUpTo(OrderLines, MaxOrderLines)}

Checkers == {"structural", "complexity", "evolution", "determinism"}

HasRun(name) == \E i \in 1..Len(ran) : ran[i] = name

\* l.structuralChecker.Check(spec, r)
RunStructural ==
    /\ pc \in {"warnings", "checkers"}
    /\ ~HasRun("structural")
    /\ r' = StructuralCheck(spec, r)
    /\ ran' = Append(ran, "structural")
    /\ pc' = "checkers"
    /\ UNCHANGED <<text, cfg, matches, landmarks, spec, op, other, http, cli>>

\* l.complexityChecker.Check(spec, r)
RunComplexity ==
    /\ pc \in {"warnings", "checkers"}
    /\ ~HasRun("complexity")
    /\ r' = ComplexityCheck(spec, r, New(cfg))
    /\ ran' = Append(ran, "complexity")
    /\ pc' = "checkers"
    /\ UNCHANGED <<text, cfg, matches, landmarks, spec, op, other, http, cli>>

\* l.evolutionChecker.Check(spec, r)
RunEvolution ==
    /\ pc \in {"warnings", "checkers"}
    /\ ~HasRun("evolution")
    /\ r' = EvolutionCheck(spec, r)
    /\ ran' = Append(ran, "evolution")
    /\ pc' = "checkers"
    /\ UNCHANGED <<text, cfg, matches, landmarks, spec, op, other, http, cli>>

\* l.determinismChecker.Check(spec, r)
RunDeterminism ==
    /\ pc \in {"warnings", "checkers"}
    /\ ~HasRun("determinism")
    /\ \E v \in Variants : r' = DeterminismCheck(spec, r, v)
    /\ ran' = Append(ran, "determinism")
    /\ pc' = "checkers"
    /\ UNCHANGED <<text, cfg, matches, landmarks, spec, op, other, http, cli>>

NextOrder ==
    \/ LintStart
    \/ ParseFind
    \/ ParseExtract
    \/ ParseOrganize
    \/ RunStructural
    \/ RunComplexity
    \/ RunEvolution
    \/ RunDeterminism

InitOrder == \E t \in OrderTexts : Called(t, DefaultConfig)

SpecOrder == InitOrder /\ [][NextOrder]_vars

\* Two invocations of Lint on one Linter, interleaved statement by statement,
\* each on the empty document or on one function f with RULES followed by up
\* to MaxSharedLines lines
MaxSharedLines == 2

SharedLines ==
    { <<"E","X","A","M","P","L","E","S",":"," ","(","1",")"," ","-",">"," ","2">>,
      <<"D","E","T","E","R","M","I","N","I","S","M",":"," ","l","e","v","e","l",":"," ","m","a","y","b","e">> }

SharedTexts ==
    {<<>>} \cup {Join(<<FnHeader(1), <<"R","U","L","E","S",":"," ","-"," ","i","f"," ","x"," ","o","r"," ","y">> >> \o ls) :
                    ls \in SeqsUpTo(SharedLines, MaxSharedLines)}

NextShared ==
    \/ LintStart
    \/ ParseFind
    \/ ParseExtract
    \/ ParseOrganize
    \/ LintParseWarnings
    \/ LintStructural
    \/ LintComplexity
    \/ LintEvolution
    \/ LintDeterminism
    \/ LintStats
    \/ OtherStep

InitShared ==
    \E a \in SharedTexts, b \in SharedTexts :
        /\ text = a /\ cfg = DefaultConfig /\ pc = "start"
        /\ matches = <<>> /\ landmarks = <<>> /\ spec = EmptySpec /\ r = NoResult
        /\ op = "none" /\ ran = <<>>
        /\ other = Invocation(b)
        /\ http = NoRequest /\ cli = NoRun

SpecShared == InitShared /\ [][NextShared]_vars

\* One request to /api/lint: any of Methods, any of Bodies, with a body reader
\* that works or fails
Methods == {"GET", "POST", "PUT"}

Bodies ==
    { <<>>,
      <<"n","o","t"," ","j","s","o","n">>,
      <<"n","u","l","l">>,
      <<"{","}">>,
      <<"{","\"","s","p","e","c","\"",":","\"","\"","}">>,
      <<"{","\"","s","p","e","c","\"",":","n","u","l","l","}">>,
      <<"{","\"","s","p","e","c","\"",":","5","}">>,
      <<"{","\"","o","t","h","e","r","\"",":","\"","x","\"","}">>,
      <<"{","\"","s","p","e","c","\"",":","\"","x","\"">>,
      <<"{","\"","s","p","e","c","\"",":","\"","x","\"","}">>,
      <<" ","{","\"","S","p","e","c","\"",":","\"","R","U","L","E","S",":"," ","-"," ","a","\"","}"," ">>,
      <<"{","\"","s","p","e","c","\"",":","\"","F","U","N","C","T","I","O","N",":"," ","f","(","a",")"," ","-",">"," ","r","\"","}">> }

InitHandler ==
    \E method \in Methods, body \in Bodies, fails \in BOOLEAN :
        /\ text = <<>> /\ cfg = DefaultConfig /\ pc = "idle"
        /\ matches = <<>> /\ landmarks = <<>> /\ spec = EmptySpec /\ r = NoResult
        /\ op = "none" /\ ran = <<>> /\ other = NoInvocation
        /\ http = Request(method, body, fails)
        /\ cli = NoRun

NextHandler ==
    \/ HandlerMethod
    \/ HandlerRead
    \/ HandlerUnmarshal
    \/ HandlerSpec
    \/ HandlerLint
    \/ LintStart
    \/ ParseFind
    \/ ParseExtract
    \/ ParseOrganize
    \/ LintParseWarnings
    \/ LintStructural
    \/ LintComplexity
    \/ LintEvolution
    \/ LintDeterminism
    \/ LintStats
    \/ HandlerRespond

SpecHandler == InitHandler /\ [][NextHandler]_vars

\* Runs of the program on up to MaxArgs named files (on standard input when
\* none is named); a file is unreadable, or holds one of CliContents
MaxArgs == 2

CliContents ==
    { <<"F","U","N","C","T","I","O","N",":"," ","f","(","a",")"," ","-",">"," ","r","\n","R","U","L","E","S",":"," ","-"," ","a","\n","D","O","N","E","_","W","H","E","N",":"," ","-"," ","b","\n","E","X","A","M","P","L","E","S",":"," ","(","1",")"," ","-",">"," ","2","\n","E","R","R","O","R","S",":"," ","-"," ","c">>,
      <<"F","U","N","C","T","I","O","N",":"," ","f","(","a",")"," ","-",">"," ","r","\n","R","U","L","E","S",":"," ","-"," ","a">> }

CliPaths == << <<"a",".","m","d">>, <<"b",".","m","d">>, <<"c",".","m","d">> >>
CliPath(i) == CliPaths[((i - 1) % Len(CliPaths)) + 1]

FileKinds == {File(<<>>, FALSE, <<>>)} \cup {File(<<>>, TRUE, c) : c \in CliContents}

CliFlags ==
    { [MaxRules |-> DefaultMaxRules, MaxInputs |-> DefaultMaxInputs, NoLLM |-> n, Verbose |-> v] :
        n \in BOOLEAN, v \in BOOLEAN }

InitCli ==
    \E kinds \in SeqsUpTo(FileKinds, MaxArgs), in \in FileKinds, flags \in CliFlags :
        /\ text = <<>> /\ cfg = DefaultConfig /\ pc = "idle"
        /\ matches = <<>> /\ landmarks = <<>> /\ spec = EmptySpec /\ r = NoResult
        /\ op = "none" /\ ran = <<>> /\ other = NoInvocation /\ http = NoRequest
        /\ cli = Run([i \in 1..Len(kinds) |-> [kinds[i] EXCEPT !.path = CliPath(i)]],
                     IF Len(kinds) = 0 THEN in ELSE File(<<>>, FALSE, <<>>), flags)

NextCli ==
    \/ CliRead
    \/ CliLintCall
    \/ CliLintStep
    \/ CliLintReturn
    \/ CliOutput
    \/ CliExit

SpecCli == InitCli /\ [][NextCli]_vars

\* The library's Lint(name, content) and the program's Lint(InputSource{name,
\* content}) on the same name, content and limits: the empty document, or a
\* function of two inputs followed by up to MaxTwinLines lines
MaxTwinLines == 2

TwinLines ==
    { <<"R","U","L","E","S",":"," ","-"," ","a">>,
      <<" "," ","-"," ","i","f"," ","b">>,
      <<"E","X","A","M","P","L","E","S",":"," ","(","1",")"," ","-",">"," ","2">> }

TwinTexts == {<<>>} \cup {Join(<<FnHeader(3)>> \o ls) : ls \in SeqsUpTo(TwinLines, MaxTwinLines)}

TwinNames == {FileName, StdinName}

TwinRules == {-1, 0, 1}
TwinInputs == {0, 1}

InitTwin ==
    \E n \in TwinNames, t \in TwinTexts, mr \in TwinRules, mi \in TwinInputs,
       noLLM \in BOOLEAN, verbose \in BOOLEAN :
        /\ text = <<>> /\ cfg = [MaxRules |-> mr, MaxInputs |-> mi] /\ pc = "idle"
        /\ matches = <<>> /\ landmarks = <<>> /\ spec = EmptySpec /\ r = NoResult
        /\ op = "none" /\ ran = <<>> /\ http = NoRequest
        /\ other = NamedInvocation(n, t)
        /\ cli = [Run(<<File(n, TRUE, t)>>, File(<<>>, FALSE, <<>>),
                      [MaxRules |-> mr, MaxInputs |-> mi, NoLLM |-> noLLM, Verbose |-> verbose])
                    EXCEPT !.inputs = <<[Name |-> n, Content |-> t]>>,
                           !.inv = NamedInvocation(n, t),
                           !.pc = "linting"]

\* the library's Lint first, then the program's
NextTwin ==
    \/ OtherStep
    \/ other.pc = "done" /\ CliLintStep

SpecTwin == InitTwin /\ [][NextTwin]_vars

\* A function with RULES followed by up to MaxCtxLines lines of DATA,
\* CONSTRAINT, function-scoped landmarks and a second FUNCTION
MaxCtxLines == 3

CtxLines ==
    { <<"D","A","T","A",":"," ","T">>,
      <<"C","O","N","S","T","R","A","I","N","T",":"," ","c">>,
      <<"E","X","A","M","P","L","E","S",":"," ","(","1",")"," ","-",">"," ","2">>,
      <<"R","U","L","E","S",":"," ","-"," ","b">>,
      FnHeader(2) }

CtxTexts == {Join(<<FnHeader(1), <<"R","U","L","E","S",":"," ","-"," ","a">>>> \o ls) : ls \in SeqsUpTo(CtxLines, MaxCtxLines)}

InitCtx == \E t \in CtxTexts : Called(t, DefaultConfig)

SpecCtx == InitCtx /\ [][Next]_vars

\* Landmarks without a function at every line from 1 to MaxBlankLines + 2:
\* up to MaxBlankLines empty lines, then one or two landmark lines
MaxBlankLines == 10

LateLines ==
    { <<"E","X","A","M","P","L","E","S",":"," ","(","1",")"," ","-",">"," ","2">>,
      <<"N","O","T","E","S",":"," ","n">> }

LateTexts ==
    { [i \in 1..k |-> "\n"] \o Join(ls) :
        k \in 0..MaxBlankLines, ls \in SeqsUpTo(LateLines, 2) \ {<<>>} }

InitLate == \E t \in LateTexts : Called(t, DefaultConfig)

SpecLate == InitLate /\ [][Next]_vars

\* One function whose RULES holds up to MaxBranchLines items of the forms the
\* branch heuristic distinguishes
MaxBranchLines == 2

BranchLines ==
    { <<" "," ","-"," ","a">>,
      <<" "," ","-"," ","i","f"," ","a">>,
      <<" "," ","-"," ","i","f"," ","a"," ","o","r"," ","b">>,
      <<" "," ","-"," ","i","f"," ","a"," ","o","t","h","e","r","w","i","s","e"," ","b">>,
      <<" "," ","-"," ","i","f"," ","a"," ","o","r"," ","b"," ","e","l","s","e"," ","c">>,
      <<" "," ","-"," ","e","i","t","h","e","r"," ","a"," ","o","r"," ","b">>,
      <<" "," ","-"," ","w","h","e","n"," ","a">>,
      <<" "," ","-"," ","o","p","t","i","o","n","a","l","l","y"," ","a">>,
      <<" "," ","-"," ","i","f"," ","a",","," ","o","t","h","e","r","w","i","s","e"," ","b">>,
      <<" "," ","-"," ","i","f"," ","a",","," ","e","l","s","e"," ","b">> }

BranchTexts ==
    { Join(<<FnHeader(1), <<"R","U","L","E","S",":">>>> \o ls) : ls \in SeqsUpTo(BranchLines, MaxBranchLines) }

InitBranch == \E t \in BranchTexts : Called(t, DefaultConfig)

SpecBranch == InitBranch /\ [][Next]_vars

\* One function whose RULES holds up to MaxItemLines lines: an item, a dash
\* with nothing after it, a plain line, an empty line; limits of one and two
MaxItemLines == 3

ItemLines ==
    { <<" "," ","-"," ","a">>,
      <<" "," ","-">>,
      <<" "," ","x">>,
      <<>> }

ItemTexts == { Join(<<FnHeader(1), <<"R","U","L","E","S",":">>>> \o ls) : ls \in SeqsUpTo(ItemLines, MaxItemLines) }

ItemLimits == {1, 2}

InitItems ==
    \E t \in ItemTexts, limit \in ItemLimits :
        Called(t, [MaxRules |-> limit, MaxInputs |-> 0])

SpecItems == InitItems /\ [][Next]_vars

\* One function with DONE_WHEN and ERRORS, followed by up to MaxSkipLines
\* lines of RULES and EXAMPLES landmarks with and without content
MaxSkipLines == 3

SkipLines ==
    { <<"R","U","L","E","S",":"," ","-"," ","i","f"," ","a">>,
      <<"R","U","L","E","S",":">>,
      <<"E","X","A","M","P","L","E","S",":"," ","(","1",")"," ","-",">"," ","2">>,
      <<"E","X","A","M","P","L","E","S",":">> }

SkipTexts ==
    { Join(<<FnHeader(1), <<"D","O","N","E","_","W","H","E","N",":"," ","-"," ","b">>, <<"E","R","R","O","R","S",":"," ","-"," ","c">>>> \o ls) :
        ls \in SeqsUpTo(SkipLines, MaxSkipLines) }

InitSkip == \E t \in SkipTexts : Called(t, DefaultConfig)

SpecSkip == InitSkip /\ [][Next]_vars

Spec == SpecDoc

----------------------------------------------------------------------------
(* The result model on its own: any sequence of Add* calls on a new result *)

MaxIssues == 3

IssueCodes == {"E002", "W010"}
IssueLocations == { <<"s","p","e","c">> }
IssueMessage == Literal("issue")
IssueSuggestion == "fix"

ResultState(res, method) ==
    /\ r = res
    /\ op = method
    /\ ran = <<>>
    /\ text = <<>>
    /\ cfg = DefaultConfig
    /\ pc = "api"
    /\ matches = <<>>
    /\ landmarks = <<>>
    /\ spec = EmptySpec
    /\ other = NoInvocation
    /\ http = NoRequest
    /\ cli = NoRun

InitResult == ResultState(NewLintResult(FileName), "NewLintResult")

Room == Len(r.Errors) + Len(r.Warnings) < MaxIssues

CallAddError ==
    /\ pc = "api" /\ Room
    /\ \E code \in IssueCodes, loc \in IssueLocations :
          r' = AddError(r, code, IssueMessage, loc)
    /\ op' = "AddError"
    /\ UNCHANGED <<text, cfg, pc, matches, landmarks, spec, ran, other, http, cli>>

CallAddErrorWithSuggestion ==
    /\ pc = "api" /\ Room
    /\ \E code \in IssueCodes, loc \in IssueLocations, fixable \in BOOLEAN :
          r' = AddErrorWithSuggestion(r, code, IssueMessage, loc, IssueSuggestion, fixable)
    /\ op' = "AddErrorWithSuggestion"
    /\ UNCHANGED <<text, cfg, pc, matches, landmarks, spec, ran, other, http, cli>>

CallAddWarning ==
    /\ pc = "api" /\ Room
    /\ \E code \in IssueCodes, loc \in IssueLocations :
          r' = AddWarning(r, code, IssueMessage, loc)
    /\ op' = "AddWarning"
    /\ UNCHANGED <<text, cfg, pc, matches, landmarks, spec, ran, other, http, cli>>

CallAddWarningWithSuggestion ==
    /\ pc = "api" /\ Room
    /\ \E code \in IssueCodes, loc \in IssueLocations, fixable \in BOOLEAN :
          r' = AddWarningWithSuggestion(r, code, IssueMessage, loc, IssueSuggestion, fixable)
    /\ op' = "AddWarningWithSuggestion"
    /\ UNCHANGED <<text, cfg, pc, matches, landmarks, spec, ran, other, http, cli>>

NextResult ==
    \/ CallAddError
    \/ CallAddErrorWithSuggestion
    \/ CallAddWarning
    \/ CallAddWarningWithSuggestion

SpecResult == InitResult /\ [][NextResult]_vars

\* The result model with statistics and serialization: any sequence of Add*
\* calls, assignments to Stats and ToJSON calls on a new result
StatsChoices ==
    { [ Functions |-> 0, Branches |-> 0, Examples |-> 0, CoveragePercent |-> <<0, 1>> ],
      [ Functions |-> 1, Branches |-> 2, Examples |-> 0, CoveragePercent |-> <<0, 2>> ],
      [ Functions |-> 3, Branches |-> 10, Examples |-> 8, CoveragePercent |-> <<800, 10>> ] }

AssignStats ==
    /\ pc = "api"
    /\ \E s \in StatsChoices : r' = [r EXCEPT !.Stats = s]
    /\ op' = "Stats"
    /\ UNCHANGED <<text, cfg, pc, matches, landmarks, spec, ran, other, http, cli>>

\* ToJSON returns ToJSON(r) and leaves the result as it is
CallToJSON ==
    /\ pc = "api"
    /\ op' = "ToJSON"
    /\ UNCHANGED <<text, cfg, pc, matches, landmarks, spec, r, ran, other, http, cli>>

NextJSON ==
    \/ CallAddError
    \/ CallAddErrorWithSuggestion
    \/ CallAddWarning
    \/ CallAddWarningWithSuggestion
    \/ AssignStats
    \/ CallToJSON

SpecJSON == InitResult /\ [][NextJSON]_vars

----------------------------------------------------------------------------
(* Properties                                                              *)

\* s is t with exactly one entry appended
ExtendsByOne(s, t) == Len(s) = Len(t) + 1 /\ SubSeq(s, 1, Len(t)) = t

AfterParse == pc \in {"warnings", "structural", "complexity", "evolution",
                      "determinism", "stats", "done"}
AfterStructural == pc \in {"complexity", "evolution", "determinism", "stats", "done"}

\* C1: when the parser finds no FUNCTION landmark (as it does whenever no line
\* of the text starts with "FUNCTION:"), Parse returns no function, and from
\* the structural check to the end of Lint the errors are exactly one E001
\* and valid is false: no later checker adds an error.
C1_NoFunctionLine ==
    \A line \in Range(Split(text, "\n")) : ~HasPrefix(line, LandmarkFUNCTION \o <<":">>)
C1_NoFunctionFound ==
    \A i \in 1..Len(matches) : matches[i].name # LandmarkFUNCTION
C1_NoFunctionOnlyE001 ==
    /\ (pc \notin {"start", "find"} /\ C1_NoFunctionLine) => C1_NoFunctionFound
    /\ (AfterParse /\ C1_NoFunctionFound) => spec.Functions = <<>>
    /\ (AfterStructural /\ C1_NoFunctionFound) =>
          /\ Len(r.Errors) = 1
          /\ r.Errors[1].Code = "E001"
          /\ r.Errors[1].Severity = SeverityError
          /\ ~r.Valid

\* C1 witness: Lint has finished on a text holding a DATA block and no
\* function, with E001 as its only error
C1_Witness ==
    /\ pc = "done"
    /\ Len(spec.DataBlocks) > 0
    /\ C1_NoFunctionFound
    /\ Len(r.Errors) = 1 /\ r.Errors[1].Code = "E001" /\ ~r.Valid

\* C2: valid is true exactly while the errors list is empty; once false it
\* stays false; AddError and AddErrorWithSuggestion append one entry to errors
\* and leave warnings alone; AddWarning and AddWarningWithSuggestion append one
\* entry to warnings and leave valid and errors alone; earlier entries never
\* change.
C2_ValidIffNoErrors == r.Valid <=> (r.Errors = <<>>)
C2_Call ==
    /\ ~r.Valid => ~r'.Valid
    /\ op' \in {"AddError", "AddErrorWithSuggestion"} =>
          /\ ~r'.Valid
          /\ ExtendsByOne(r'.Errors, r.Errors)
          /\ r'.Errors[Len(r'.Errors)].Severity = SeverityError
          /\ r'.Warnings = r.Warnings
    /\ op' \in {"AddWarning", "AddWarningWithSuggestion"} =>
          /\ r'.Valid = r.Valid
          /\ r'.Errors = r.Errors
          /\ ExtendsByOne(r'.Warnings, r.Warnings)
          /\ r'.Warnings[Len(r'.Warnings)].Severity = SeverityWarning
C2_ValidityIsPermanent ==
    /\ C2_ValidIffNoErrors
    /\ [](C2_ValidIffNoErrors)
    /\ [][C2_Call]_vars

\* C2 witness: a warning was added after an error, and valid is still false
C2_Witness ==
    /\ op = "AddWarning"
    /\ Len(r.Errors) > 0 /\ Len(r.Warnings) > 0
    /\ ~r.Valid


\* the entries a step appended to the errors
NewErrors == SubSeq(r'.Errors, Len(r.Errors) + 1, Len(r'.Errors))
\* a step only appended to the errors and to the warnings
OnlyAppends ==
    /\ Len(r'.Errors) >= Len(r.Errors)
    /\ SubSeq(r'.Errors, 1, Len(r.Errors)) = r.Errors
    /\ Len(r'.Warnings) >= Len(r.Warnings)
    /\ SubSeq(r'.Warnings, 1, Len(r.Warnings)) = r.Warnings

WithCode(errs, codes) == SelectSeq(errs, LAMBDA e : e.Code \in codes)

\* C3: with at least one function, the structural check appends, function by
\* function in document order and in the order E002, E003, E004, E005, one
\* error for each of RULES, DONE_WHEN, EXAMPLES, ERRORS missing from the
\* function's landmark map, located at the function, and no other error; only
\* E005 carries a suggestion and is fixable.
C3_Names == <<LandmarkRULES, LandmarkDONE_WHEN, LandmarkEXAMPLES, LandmarkERRORS>>
C3_Codes == <<"E002", "E003", "E004", "E005">>
C3_ExpectedOf(fn) ==
    LET missing == SelectSeq(<<1, 2, 3, 4>>, LAMBDA k : C3_Names[k] \notin DOMAIN fn.Landmarks)
    IN  [ j \in 1..Len(missing) |->
            [ Code |-> C3_Codes[missing[j]],
              Location |-> <<"F","U","N","C","T","I","O","N"," ">> \o fn.Name,
              Suggested |-> missing[j] = 4,
              Fixable |-> missing[j] = 4 ] ]
C3_Expected == Flatten([i \in 1..Len(spec.Functions) |-> C3_ExpectedOf(spec.Functions[i])])
C3_Reported ==
    [ j \in 1..Len(NewErrors) |->
        [ Code |-> NewErrors[j].Code,
          Location |-> NewErrors[j].Location,
          Suggested |-> NewErrors[j].Suggestion # NoSuggestion,
          Fixable |-> NewErrors[j].Fixable ] ]
C3_RequiredLandmarkErrors ==
    [][(pc = "structural" /\ Len(spec.Functions) > 0) =>
          (OnlyAppends /\ C3_Reported = C3_Expected)]_vars

\* C3 witness: two functions; the first lacks RULES and ERRORS, the second
\* DONE_WHEN; the structural check has reported E002, E005, E003 in that order
C3_Witness ==
    /\ pc = "complexity"
    /\ Len(spec.Functions) = 2
    /\ DOMAIN spec.Functions[1].Landmarks = {LandmarkDONE_WHEN, LandmarkEXAMPLES}
    /\ DOMAIN spec.Functions[2].Landmarks = {LandmarkRULES, LandmarkEXAMPLES, LandmarkERRORS}
    /\ [j \in 1..Len(r.Errors) |-> r.Errors[j].Code] = <<"E002", "E005", "E003">>

\* C7 as stated: for every function, E012 is reported iff
\* CountExamples(EXAMPLES content) < CountBranches(RULES content).
C7_Short(fn) == CountExamples(GetExamples(fn)) < CountBranches(GetRules(fn))
C7_Entry(fn) ==
    [ Code |-> "E012",
      Location |-> formatFunctionLocation(fn.Name),
      Args |-> <<Itoa(CountExamples(GetExamples(fn))), Itoa(CountBranches(GetRules(fn)))>> ]
C7_Reported ==
    LET es == WithCode(NewErrors, {"E012"})
    IN  [ j \in 1..Len(es) |->
            [ Code |-> es[j].Code, Location |-> es[j].Location, Args |-> es[j].Message.args ] ]
C7_ExpectedWhere(Covered(_)) ==
    LET fns == SelectSeq(spec.Functions, LAMBDA fn : Covered(fn) /\ C7_Short(fn))
    IN  [ j \in 1..Len(fns) |-> C7_Entry(fns[j]) ]
C7_Any(fn) == TRUE
C7_E012IffFewerExamples ==
    [][pc = "complexity" => C7_Reported = C7_ExpectedWhere(C7_Any)]_vars

\* C7 amended: for every function whose RULES and EXAMPLES contents are both
\* non-empty, E012 is reported iff its example count is less than its branch
\* count, the message citing both numbers; a function whose RULES or EXAMPLES
\* content is empty or absent gets no E012.
C7_BothPresent(fn) == GetRules(fn) # <<>> /\ GetExamples(fn) # <<>>
C7_E012IffFewerExamplesWhenBothPresent ==
    [][pc = "complexity" => C7_Reported = C7_ExpectedWhere(C7_BothPresent)]_vars

\* C7 witness: a function with two branches and one example got its E012,
\* citing 1 and 2
C7_Witness ==
    /\ pc = "evolution"
    /\ \E i \in 1..Len(spec.Functions) :
          /\ CountBranches(GetRules(spec.Functions[i])) = 2
          /\ CountExamples(GetExamples(spec.Functions[i])) = 1
    /\ \E j \in 1..Len(r.Errors) :
          r.Errors[j].Code = "E012" /\ r.Errors[j].Message.args = << <<"1">>, <<"2">> >>

\* C8: for every function and configured maxRules (non-positive meaning 15),
\* E010 is reported, once, iff the function's RULES item count exceeds
\* maxRules, and its message states the count and the limit; a function with
\* exactly maxRules dash-prefixed items gets none.
C8_Limit == IF cfg.MaxRules > 0 THEN cfg.MaxRules ELSE 15
C8_ItemCount(content) ==
    LET lines  == Split(content, "\n")
        dashed == {i \in 1..Len(lines) :
                      LET t == TrimSpace(lines[i])
                      IN  Len(t) > 1 /\ t[1] = "-" /\ TrimSpace(Tail(t)) # <<>>}
        filled == {i \in 1..Len(lines) : TrimSpace(lines[i]) # <<>>}
    IN  IF dashed # {} THEN Cardinality(dashed) ELSE Cardinality(filled)
C8_Expected ==
    LET fns == SelectSeq(spec.Functions,
                         LAMBDA fn : C8_ItemCount(GetRules(fn)) > C8_Limit)
    IN  [ j \in 1..Len(fns) |->
            [ Code |-> "E010",
              Location |-> formatFunctionLocation(fns[j].Name),
              Args |-> <<Itoa(C8_ItemCount(GetRules(fns[j]))), Itoa(C8_Limit)>> ] ]
C8_Reported ==
    LET es == WithCode(NewErrors, {"E010"})
    IN  [ j \in 1..Len(es) |->
            [ Code |-> es[j].Code, Location |-> es[j].Location, Args |-> es[j].Message.args ] ]
\* the dash-prefixed lines of the whole input
C8_DashLines ==
    Cardinality({i \in 1..Len(Split(text, "\n")) :
                    HasPrefix(TrimSpace(Split(text, "\n")[i]), <<"-">>)})
C8_E010IffOverLimit ==
    /\ [][pc = "complexity" => C8_Reported = C8_Expected]_vars
    /\ []((pc = "done" /\ Len(spec.Functions) = 1) =>
             ((C8_DashLines > C8_Limit) =>
                 Len(WithCode(r.Errors, {"E010"})) = 1)
             /\ ((C8_DashLines > 0 /\ C8_DashLines <= C8_Limit) =>
                 Len(WithCode(r.Errors, {"E010"})) = 0))

\* C8 witness: default limit, one function with sixteen dash-prefixed items,
\* one E010 citing 16 and 15
C8_Witness ==
    /\ pc = "done"
    /\ cfg.MaxRules = 0
    /\ Len(spec.Functions) = 1
    /\ C8_DashLines = 16
    /\ \E j \in 1..Len(r.Errors) :
          /\ r.Errors[j].Code = "E010"
          /\ r.Errors[j].Message.args = << <<"1", "6">>, <<"1", "5">> >>


\* C9: the evolution check appends exactly one E060, fixable and with a
\* suggestion, for every function that has a BASELINE landmark and no EVAL
\* landmark, whatever the BASELINE content, and none for any other function.
C9_Expected ==
    LET fns == SelectSeq(spec.Functions,
                         LAMBDA fn : LandmarkBASELINE \in DOMAIN fn.Landmarks
                                     /\ LandmarkEVAL \notin DOMAIN fn.Landmarks)
    IN  [ j \in 1..Len(fns) |->
            [ Code |-> "E060", Location |-> <<"F","U","N","C","T","I","O","N"," ">> \o fns[j].Name,
              Suggested |-> TRUE, Fixable |-> TRUE ] ]
C9_Reported ==
    LET es == WithCode(NewErrors, {"E060"})
    IN  [ j \in 1..Len(es) |->
            [ Code |-> es[j].Code, Location |-> es[j].Location,
              Suggested |-> es[j].Suggestion # NoSuggestion, Fixable |-> es[j].Fixable ] ]
C9_BaselineWithoutEval ==
    [][pc = "evolution" => (OnlyAppends /\ C9_Reported = C9_Expected)]_vars

\* C9 witness: a function whose BASELINE landmark has empty content and which
\* has no EVAL got its one E060
C9_Witness ==
    /\ pc = "determinism"
    /\ Len(spec.Functions) = 1
    /\ LandmarkBASELINE \in DOMAIN spec.Functions[1].Landmarks
    /\ spec.Functions[1].Landmarks[LandmarkBASELINE].Content = <<>>
    /\ LandmarkEVAL \notin DOMAIN spec.Functions[1].Landmarks
    /\ Len(WithCode(r.Errors, {"E060"})) = 1
    /\ \A j \in 1..Len(r.Errors) :
          r.Errors[j].Code = "E060" =>
              r.Errors[j].Fixable /\ r.Errors[j].Suggestion # NoSuggestion

\* C10: the determinism check appends, for every function with a DETERMINISM
\* landmark whose level (the value of its last level: line, empty when there
\* is none) is not one of strict, structural, semantic, exactly one error,
\* with code E070, and nothing else: nothing for a valid level, nothing for a
\* function without DETERMINISM, nothing for seed, vary or stable lines, and
\* no warning.
C10_Level(content) ==
    LET lines == Split(content, "\n")
        at    == {i \in 1..Len(lines) : HasPrefix(TrimSpace(lines[i]), <<"l","e","v","e","l",":">>)}
    IN  IF at = {} THEN <<>>
        ELSE LET t == TrimSpace(lines[SetMax(at)])
             IN  TrimSpace(SubSeq(t, 7, Len(t)))
C10_Expected ==
    LET fns == SelectSeq(spec.Functions,
                   LAMBDA fn : LandmarkDETERMINISM \in DOMAIN fn.Landmarks
                               /\ C10_Level(fn.Landmarks[LandmarkDETERMINISM].Content)
                                     \notin { <<"s","t","r","i","c","t">>, <<"s","t","r","u","c","t","u","r","a","l">>, <<"s","e","m","a","n","t","i","c">> })
    IN  [ j \in 1..Len(fns) |->
            [ Code |-> "E070",
              Location |-> <<"F","U","N","C","T","I","O","N"," ">> \o fns[j].Name \o <<" ","D","E","T","E","R","M","I","N","I","S","M">> ] ]
C10_Reported ==
    [ j \in 1..Len(NewErrors) |->
        [ Code |-> NewErrors[j].Code, Location |-> NewErrors[j].Location ] ]
AfterExtract == pc \notin {"start", "find", "extract"}

C4_Scoped == {k \in 1..Len(landmarks) : landmarks[k].Name \in FunctionLandmarks}
C4_FunctionsUpTo(k) ==
    Cardinality({j \in 1..k : landmarks[j].Name = LandmarkFUNCTION})
\* the function a landmark belongs to when DATA and CONSTRAINT are ignored:
\* the nearest FUNCTION before it, 0 when there is none
C4_NearestFunction(k) == C4_FunctionsUpTo(k)
\* the function a landmark belongs to when DATA and CONSTRAINT end a function:
\* the nearest FUNCTION before it unless a DATA or CONSTRAINT lies between
C4_OpenFunction(k) ==
    LET heads == {j \in 1..(k - 1) :
                     landmarks[j].Name \in {LandmarkFUNCTION, LandmarkDATA, LandmarkCONSTRAINT}}
    IN  IF heads = {} THEN 0
        ELSE IF landmarks[SetMax(heads)].Name = LandmarkFUNCTION
        THEN C4_FunctionsUpTo(k) ELSE 0
C4_StoredBy(Owner(_)) ==
    /\ Len(spec.Functions) = C4_FunctionsUpTo(Len(landmarks))
    /\ \A n \in 1..Len(spec.Functions) :
          LET mine == {k \in C4_Scoped : Owner(k) = n}
          IN  /\ DOMAIN spec.Functions[n].Landmarks = {landmarks[k].Name : k \in mine}
              /\ \A k \in mine :
                    spec.Functions[n].Landmarks[landmarks[k].Name] =
                        landmarks[SetMax({j \in mine : landmarks[j].Name = landmarks[k].Name})]
    /\ LET outside == SelectSeq(spec.ParseWarnings,
                          LAMBDA w : w.fmt = "landmark %s at line %s appears outside FUNCTION block")
           dropped == SelectSeq([k \in 1..Len(landmarks) |-> k],
                          LAMBDA k : k \in C4_Scoped /\ Owner(k) = 0)
       IN  [j \in 1..Len(outside) |-> outside[j].args[1]] =
           [j \in 1..Len(dropped) |-> landmarks[dropped[j]].Name]

\* C4 as stated: every function-scoped landmark with a FUNCTION before it is
\* stored in the map of the nearest preceding FUNCTION, and is dropped with a
\* parse warning only when no FUNCTION precedes it.
C4_AttachesToNearestFunction == AfterParse => C4_StoredBy(C4_NearestFunction)

\* C4 amended: a function-scoped landmark is stored in the map of the nearest
\* preceding FUNCTION when no DATA or CONSTRAINT landmark lies between the two
\* (a later landmark of the same name in the same function replacing it), and
\* is dropped with a parse warning when no FUNCTION precedes it or a DATA or
\* CONSTRAINT landmark lies between.
C4_AttachesToOpenFunction == AfterParse => C4_StoredBy(C4_OpenFunction)

\* C4 witness: FUNCTION, DATA, EXAMPLES: the EXAMPLES landmark has a FUNCTION
\* before it and is dropped with a warning
C4_Witness ==
    /\ pc = "done"
    /\ [k \in 1..Len(landmarks) |-> landmarks[k].Name] =
          <<LandmarkFUNCTION, LandmarkDATA, LandmarkEXAMPLES>>
    /\ Len(spec.Functions) = 1
    /\ spec.Functions[1].Landmarks = EmptyMap
    /\ Len(spec.ParseWarnings) = 1
    /\ spec.ParseWarnings[1].args[1] = LandmarkEXAMPLES

\* the lines of the input and those that start with capitals and underscores
\* followed by a colon
C5_Lines == Split(text, "\n")
C5_NameEnd(line) == RunEnd(line, 1, IsNameChar)
C5_IsLandmarkLine(line) ==
    C5_NameEnd(line) >= 1 /\ C5_NameEnd(line) < Len(line) /\ line[C5_NameEnd(line) + 1] = ":"
C5_LandmarkLines ==
    SelectSeq([i \in 1..Len(C5_Lines) |-> i], LAMBDA i : C5_IsLandmarkLine(C5_Lines[i]))

\* C5 as stated: every line that starts with capitals and underscores followed
\* by a colon yields exactly one landmark, in document order; a landmark line
\* with nothing after the colon that is followed, after blank lines only, by
\* another landmark line has empty content.
C5_EveryLandmarkLineRecorded ==
    AfterExtract =>
        /\ [k \in 1..Len(landmarks) |-> <<landmarks[k].LineNumber, landmarks[k].Name>>] =
           [j \in 1..Len(C5_LandmarkLines) |->
               <<C5_LandmarkLines[j],
                 SubSeq(C5_Lines[C5_LandmarkLines[j]], 1,
                        C5_NameEnd(C5_Lines[C5_LandmarkLines[j]]))>>]
        /\ \A k \in 1..Len(landmarks) :
              LET i    == landmarks[k].LineNumber
                  line == C5_Lines[i]
                  next == {j \in (i + 1)..Len(C5_Lines) : TrimSpace(C5_Lines[j]) # <<>>}
              IN  (/\ TrimSpace(SubSeq(line, Len(landmarks[k].Name) + 2, Len(line))) = <<>>
                   /\ next # {}
                   /\ C5_IsLandmarkLine(C5_Lines[SetMin(next)]))
                  => landmarks[k].Content = <<>>

\* the indented lines that hold a landmark-looking token
C6_TokenLines ==
    {i \in 1..Len(C5_Lines) :
        /\ HasPrefix(C5_Lines[i], <<" ">>)
        /\ C5_IsLandmarkLine(TrimSpace(C5_Lines[i]))}
C6_TokenName(i) == SubSeq(TrimSpace(C5_Lines[i]), 1, C5_NameEnd(TrimSpace(C5_Lines[i])))

\* C6: a landmark-looking token that does not begin a line is never recorded
\* as a landmark: every match begins at the start of the text or right after
\* a line break, no landmark sits on the token's line, and the token creates
\* no function, DATA block, constraint or parse warning and is part of the
\* content of the landmark before it.
C6_MidLineNeverLandmark ==
    /\ pc \notin {"start", "find"} =>
          \A k \in 1..Len(matches) :
              /\ matches[k].startIndex = 1 \/ text[matches[k].startIndex - 1] = "\n"
              /\ matches[k].lineNumber \notin C6_TokenLines
    /\ AfterExtract =>
          \A i \in C6_TokenLines :
              LET before == {k \in 1..Len(landmarks) : landmarks[k].LineNumber < i}
              IN  /\ \A k \in 1..Len(landmarks) : landmarks[k].LineNumber # i
                  /\ before # {} =>
                        Contains(landmarks[SetMax(before)].Content, TrimSpace(C5_Lines[i]))
    /\ AfterParse =>
          /\ Len(spec.Functions) + Len(spec.DataBlocks) + Len(spec.Constraints)
                + Len(spec.ParseWarnings)
                + SumSeq([n \in 1..Len(spec.Functions) |->
                             Cardinality(DOMAIN spec.Functions[n].Landmarks)])
                <= Len(C5_LandmarkLines)
          /\ \A i \in C6_TokenLines :
                /\ \A n \in 1..Len(spec.Functions) :
                      \A nm \in DOMAIN spec.Functions[n].Landmarks :
                          spec.Functions[n].Landmarks[nm].LineNumber # i
                /\ \A j \in 1..Len(spec.DataBlocks) : spec.DataBlocks[j].LineNumber # i
                /\ \A j \in 1..Len(spec.Constraints) : spec.Constraints[j].LineNumber # i
                /\ \A j \in 1..Len(spec.Functions) : spec.Functions[j].LineNumber # i
                /\ \A j \in 1..Len(spec.ParseWarnings) :
                      spec.ParseWarnings[j].args[1] # C6_TokenName(i)

\* C6 witness: FUNCTION, RULES and an indented EVAL token: one function whose
\* RULES content holds the token, no EVAL landmark, no warning
C6_Witness ==
    /\ pc = "done"
    /\ C6_TokenLines = {3}
    /\ Len(landmarks) = 2
    /\ Len(spec.Functions) = 1
    /\ DOMAIN spec.Functions[1].Landmarks = {LandmarkRULES}
    /\ spec.Functions[1].Landmarks[LandmarkRULES].Content = <<"E","V","A","L",":"," ","e">>
    /\ spec.ParseWarnings = <<>>

\* the value of a field of a block: that of its last line starting with the
\* field name, empty when there is none
FieldValue(content, key) ==
    LET lines == Split(content, "\n")
        at    == {i \in 1..Len(lines) : HasPrefix(TrimSpace(lines[i]), key)}
    IN  IF at = {} THEN <<>>
        ELSE LET t == TrimSpace(lines[SetMax(at)])
             IN  TrimSpace(SubSeq(t, Len(key) + 1, Len(t)))
\* pass, the mark, one or more digits, nothing else
C11_IsPass(value, mark) ==
    /\ Len(value) >= 6
    /\ SubSeq(value, 1, 5) = <<"p","a","s","s">> \o <<mark>>
    /\ \A i \in 6..Len(value) : value[i] \in {"0", "1", "2", "3", "4", "5", "6", "7", "8", "9"}
C11_ExpectedOf(fn) ==
    IF LandmarkEVAL \notin DOMAIN fn.Landmarks THEN <<>>
    ELSE LET content  == fn.Landmarks[LandmarkEVAL].Content
             preserve == FieldValue(content, <<"p","r","e","s","e","r","v","e",":">>)
             evolve   == FieldValue(content, <<"e","v","o","l","v","e",":">>)
             grading  == FieldValue(content, <<"g","r","a","d","i","n","g",":">>)
             baseline == LandmarkBASELINE \in DOMAIN fn.Landmarks
             loc      == <<"F","U","N","C","T","I","O","N"," ">> \o fn.Name \o <<" ","E","V","A","L">>
             entry(code, args) == [Code |-> code, Location |-> loc, Args |-> args]
         IN  (IF baseline /\ preserve = <<>> THEN <<entry("E061", <<>>)>> ELSE <<>>)
             \o (IF baseline /\ evolve = <<>> THEN <<entry("E062", <<>>)>> ELSE <<>>)
             \o (IF preserve # <<>> /\ ~C11_IsPass(preserve, "^")
                 THEN <<entry("E063", <<preserve>>)>> ELSE <<>>)
             \o (IF evolve # <<>> /\ ~C11_IsPass(evolve, "@")
                 THEN <<entry("E064", <<evolve>>)>> ELSE <<>>)
             \o (IF grading # <<>> /\ grading \notin { <<"c","o","d","e">>, <<"m","o","d","e","l">>, <<"o","u","t","c","o","m","e">> }
                 THEN <<entry("E065", <<grading>>)>> ELSE <<>>)
C11_Expected == Flatten([i \in 1..Len(spec.Functions) |-> C11_ExpectedOf(spec.Functions[i])])
C11_Reported ==
    LET es == WithCode(NewErrors, {"E061", "E062", "E063", "E064", "E065", "E066"})
    IN  [ j \in 1..Len(es) |->
            [ Code |-> es[j].Code, Location |-> es[j].Location, Args |-> es[j].Message.args ] ]
C11_WellFormed(fn) ==
    /\ LandmarkBASELINE \in DOMAIN fn.Landmarks
    /\ fn.Landmarks[LandmarkBASELINE].Content =
          <<"r","e","f","e","r","e","n","c","e",":"," ","v","1","\n","p","r","e","s","e","r","v","e",":","\n"," "," ","-"," ","k","e","e","p","\n"," "," ","e","v","o","l","v","e",":","\n"," "," ","-"," ","g","r","o","w">>
    /\ LandmarkEVAL \in DOMAIN fn.Landmarks
    /\ C11_IsPass(FieldValue(fn.Landmarks[LandmarkEVAL].Content, <<"p","r","e","s","e","r","v","e",":">>), "^")
    /\ C11_IsPass(FieldValue(fn.Landmarks[LandmarkEVAL].Content, <<"e","v","o","l","v","e",":">>), "@")
    /\ FieldValue(fn.Landmarks[LandmarkEVAL].Content, <<"g","r","a","d","i","n","g",":">>)
          \in { <<"c","o","d","e">>, <<"m","o","d","e","l">>, <<"o","u","t","c","o","m","e">> }

\* C11: for every function with an EVAL landmark the evolution check reports
\* E061 iff BASELINE is present and the preserve value is empty, E062 likewise
\* for evolve, E063 iff the preserve value is non-empty and is not pass^ and
\* digits, E064 iff the evolve value is non-empty and is not pass@ and digits,
\* E065 iff the grading value is non-empty and not code, model or outcome, the
\* last three citing the value; a function with a complete BASELINE and a
\* well-formed EVAL gets no error from the step.
C11_EvalFieldErrors ==
    [][pc = "evolution" =>
          /\ OnlyAppends
          /\ C11_Reported = C11_Expected
          /\ (\A i \in 1..Len(spec.Functions) : C11_WellFormed(spec.Functions[i]))
                => NewErrors = <<>>]_vars

\* C11 witness: BASELINE and an EVAL holding pass^ without digits, a pass^5
\* evolve value and the grading human: E063, E064, E065 and neither E061 nor E062
C11_Witness ==
    /\ pc = "determinism"
    /\ Len(spec.Functions) = 1
    /\ LandmarkBASELINE \in DOMAIN spec.Functions[1].Landmarks
    /\ LandmarkEVAL \in DOMAIN spec.Functions[1].Landmarks
    /\ FieldValue(spec.Functions[1].Landmarks[LandmarkEVAL].Content, <<"p","r","e","s","e","r","v","e",":">>) = <<"p","a","s","s","^">>
    /\ [j \in 1..Len(WithCode(r.Errors, {"E061", "E062", "E063", "E064", "E065"})) |->
          WithCode(r.Errors, {"E061", "E062", "E063", "E064", "E065"})[j].Code]
          = <<"E063", "E064", "E065">>

\* the trimmed lines of a BASELINE content, the headers among them, and the
\* dash-prefixed lines that follow a header of the given kind with no other
\* header between
C12_Lines(content) ==
    LET lines == Split(content, "\n") IN [i \in 1..Len(lines) |-> TrimSpace(lines[i])]
C12_Headers(ls, key) == {i \in 1..Len(ls) : HasPrefix(ls[i], key)}
C12_AllHeaders(ls) ==
    C12_Headers(ls, <<"r","e","f","e","r","e","n","c","e",":">>) \cup C12_Headers(ls, <<"p","r","e","s","e","r","v","e",":">>)
        \cup C12_Headers(ls, <<"e","v","o","l","v","e",":">>)
C12_Items(ls, key) ==
    {i \in 1..Len(ls) :
        /\ ls[i] # <<>> /\ ls[i][1] = "-"
        /\ \E h \in C12_Headers(ls, key) :
              h < i /\ \A g \in C12_AllHeaders(ls) : ~(h < g /\ g < i)}
C12_ExpectedOf(fn) ==
    IF LandmarkBASELINE \notin DOMAIN fn.Landmarks THEN <<>>
    ELSE LET ls  == C12_Lines(fn.Landmarks[LandmarkBASELINE].Content)
             loc == <<"F","U","N","C","T","I","O","N"," ">> \o fn.Name \o <<" ","B","A","S","E","L","I","N","E">>
             entry(code) == [Code |-> code, Location |-> loc]
         IN  (IF C12_Headers(ls, <<"r","e","f","e","r","e","n","c","e",":">>) = {} THEN <<entry("E050")>> ELSE <<>>)
             \o (IF C12_Headers(ls, <<"p","r","e","s","e","r","v","e",":">>) = {} THEN <<entry("E051")>>
                 ELSE IF C12_Items(ls, <<"p","r","e","s","e","r","v","e",":">>) = {} THEN <<entry("E053")>> ELSE <<>>)
             \o (IF C12_Headers(ls, <<"e","v","o","l","v","e",":">>) = {} THEN <<entry("E052")>>
                 ELSE IF C12_Items(ls, <<"e","v","o","l","v","e",":">>) = {} THEN <<entry("E054")>> ELSE <<>>)
C12_Expected == Flatten([i \in 1..Len(spec.Functions) |-> C12_ExpectedOf(spec.Functions[i])])
C12_Reported ==
    LET es == WithCode(NewErrors, {"E050", "E051", "E052", "E053", "E054"})
    IN  [ j \in 1..Len(es) |-> [ Code |-> es[j].Code, Location |-> es[j].Location ] ]

\* C12: for every function with a BASELINE landmark the evolution check
\* reports E050 iff no line starts with reference:, E051 iff there is no
\* preserve: header, E053 iff there is one and no dash-prefixed line lies
\* between a preserve: header and the next header, and E052 / E054 likewise
\* for evolve; E051 and E053, and E052 and E054, never come together.
C12_BaselineFieldErrors ==
    [][pc = "evolution" =>
          /\ C12_Reported = C12_Expected
          /\ \A n \in 1..Len(spec.Functions) :
                LET mine == {NewErrors[j].Code : j \in {j \in 1..Len(NewErrors) :
                                NewErrors[j].Location =
                                    <<"F","U","N","C","T","I","O","N"," ">> \o spec.Functions[n].Name \o <<" ","B","A","S","E","L","I","N","E">>}}
                IN  ~({"E051", "E053"} \subseteq mine) /\ ~({"E052", "E054"} \subseteq mine)]_vars

\* C12 witness: reference, a preserve: header with an item, an evolve: header
\* with none: E054 alone among the BASELINE errors
C12_Witness ==
    /\ pc = "determinism"
    /\ Len(spec.Functions) = 1
    /\ LandmarkBASELINE \in DOMAIN spec.Functions[1].Landmarks
    /\ spec.Functions[1].Landmarks[LandmarkBASELINE].Content =
          <<"r","e","f","e","r","e","n","c","e",":"," ","v","1","\n","p","r","e","s","e","r","v","e",":","\n"," "," ","-"," ","i","t","e","m","\n"," "," ","e","v","o","l","v","e",":">>
    /\ [j \in 1..Len(WithCode(r.Errors, {"E050", "E051", "E052", "E053", "E054"})) |->
          WithCode(r.Errors, {"E050", "E051", "E052", "E053", "E054"})[j].Code] = <<"E054">>

\* the landmarks that are FUNCTION landmarks, in order, and the first content
\* line of each, trimmed
C13_FunctionLandmarks ==
    SelectSeq([k \in 1..Len(landmarks) |-> k], LAMBDA k : landmarks[k].Name = LandmarkFUNCTION)
C13_FirstLine(content) == TrimSpace(Split(content, "\n")[1])
\* a line that cannot be identifier(args) arrow returnType: no parenthesis, no
\* arrow, or something other than one identifier before the parenthesis
C13_Degraded(line) ==
    LET opens == {i \in 1..Len(line) : line[i] = "("}
        head  == IF opens = {} THEN <<>> ELSE TrimSpace(SubSeq(line, 1, SetMin(opens) - 1))
    IN  \/ opens = {}
        \/ ~(Contains(line, <<"-", ">">>) \/ Contains(line, <<"→">>))
        \/ head = <<>>
        \/ \E i \in 1..Len(head) : ~IsWord(head[i])
C13_Location(fn) ==
    IF fn.Name = <<>> THEN <<"F","U","N","C","T","I","O","N"," ","(","u","n","n","a","m","e","d",")">> ELSE <<"F","U","N","C","T","I","O","N"," ">> \o fn.Name

\* C13: a FUNCTION landmark whose first content line is not a signature still
\* gives a function, named by the whole trimmed line, without inputs and
\* without return type; every FUNCTION landmark gives one function, the
\* landmarks after it attach to it, Lint goes on through the four checkers and
\* the statistics, each only appending findings, the findings about the
\* function sit at FUNCTION and its name
\* (FUNCTION (unnamed) for the empty name), and it gets no return-type warning.
C13_AfterParse ==
    /\ AfterParse =>
          /\ Len(spec.Functions) = Len(C13_FunctionLandmarks)
          /\ C4_StoredBy(C4_OpenFunction)
          /\ \A n \in 1..Len(spec.Functions) :
                LET line == C13_FirstLine(landmarks[C13_FunctionLandmarks[n]].Content)
                IN  /\ spec.Functions[n].Signature = line
                    /\ C13_Degraded(line) =>
                          /\ spec.Functions[n].Name = line
                          /\ spec.Functions[n].Inputs = <<>>
                          /\ spec.Functions[n].ReturnType = <<>>
    /\ pc = "done" =>
          /\ r.Stats.Functions = Len(C13_FunctionLandmarks)
          /\ \A j \in 1..Len(r.Errors) :
                r.Errors[j].Code # "E001" =>
                    \E n \in 1..Len(spec.Functions) :
                        HasPrefix(r.Errors[j].Location, C13_Location(spec.Functions[n]))
          /\ \A n \in 1..Len(spec.Functions) :
                /\ \A k \in 1..4 :
                      C3_Names[k] \notin DOMAIN spec.Functions[n].Landmarks =>
                          \E j \in 1..Len(r.Errors) :
                              /\ r.Errors[j].Code = C3_Codes[k]
                              /\ r.Errors[j].Location = C13_Location(spec.Functions[n])
                /\ C13_Degraded(spec.Functions[n].Signature) =>
                      \A j \in 1..Len(r.Warnings) :
                          r.Warnings[j].Location = C13_Location(spec.Functions[n]) =>
                              r.Warnings[j].Code \notin {"E006", "W006"}
\* the position of Lint that follows each position once the function list is built
C13_Following ==
    [ p \in {"organize", "warnings", "structural", "complexity", "evolution",
             "determinism", "stats"} |->
        CASE p = "organize" -> "warnings"
          [] p = "warnings" -> "structural"
          [] p = "structural" -> "complexity"
          [] p = "complexity" -> "evolution"
          [] p = "evolution" -> "determinism"
          [] p = "determinism" -> "stats"
          [] p = "stats" -> "done" ]
C13_Step ==
    pc \in DOMAIN C13_Following =>
        (pc' = C13_Following[pc] /\ OnlyAppends /\ (pc # "organize" => spec' = spec))
C13_MalformedSignatureTolerated == [](C13_AfterParse) /\ [][C13_Step]_vars

\* C13 witness: a malformed signature, a RULES landmark attached to it, and a
\* FUNCTION landmark without any signature: two functions, named broken and
\* unnamed, each with its errors
C13_Witness ==
    /\ pc = "done"
    /\ [n \in 1..Len(spec.Functions) |-> spec.Functions[n].Name] = << <<"b","r","o","k","e","n">>, <<>> >>
    /\ DOMAIN spec.Functions[1].Landmarks = {LandmarkRULES}
    /\ [j \in 1..Len(r.Errors) |-> <<r.Errors[j].Code, r.Errors[j].Location>>] =
          << <<"E003", <<"F","U","N","C","T","I","O","N"," ","b","r","o","k","e","n">> >>, <<"E004", <<"F","U","N","C","T","I","O","N"," ","b","r","o","k","e","n">> >>,
             <<"E005", <<"F","U","N","C","T","I","O","N"," ","b","r","o","k","e","n">> >>,
             <<"E002", <<"F","U","N","C","T","I","O","N"," ","(","u","n","n","a","m","e","d",")">> >>, <<"E003", <<"F","U","N","C","T","I","O","N"," ","(","u","n","n","a","m","e","d",")">> >>,
             <<"E004", <<"F","U","N","C","T","I","O","N"," ","(","u","n","n","a","m","e","d",")">> >>, <<"E005", <<"F","U","N","C","T","I","O","N"," ","(","u","n","n","a","m","e","d",")">> >> >>

\* the closed set of landmark names
C14_Recognized ==
    { <<"D","A","T","A">>, <<"C","O","N","S","T","R","A","I","N","T">>, <<"F","U","N","C","T","I","O","N">>, <<"R","U","L","E","S">>, <<"D","O","N","E","_","W","H","E","N">>, <<"E","X","A","M","P","L","E","S">>,
      <<"E","R","R","O","R","S">>, <<"R","E","A","D","S">>, <<"W","R","I","T","E","S">>, <<"T","R","I","G","G","E","R","S">>, <<"N","O","T","_","A","L","L","O","W","E","D">>, <<"H","A","N","D","O","F","F">>,
      <<"U","N","C","E","R","T","A","I","N">>, <<"B","A","S","E","L","I","N","E">>, <<"E","V","A","L">>, <<"D","E","T","E","R","M","I","N","I","S","M">> }
C14_Unrecognized ==
    SelectSeq([k \in 1..Len(landmarks) |-> k],
              LAMBDA k : landmarks[k].Name \notin C14_Recognized)
C14_Noted ==
    SelectSeq(spec.ParseWarnings, LAMBDA w : w.fmt = "unrecognized landmark: %s at line %s")
\* each landmark with a name outside the set gave one parse warning, in
\* order, and the landmarks after it are stored as if it were not there
C14_Parsed ==
    AfterParse =>
        /\ [j \in 1..Len(C14_Noted) |-> C14_Noted[j].args[1]] =
           [j \in 1..Len(C14_Unrecognized) |-> landmarks[C14_Unrecognized[j]].Name]
        /\ C4_StoredBy(C4_OpenFunction)
\* Lint turns each parse warning into one W001 warning at parse, and nothing else
C14_Surfaced ==
    pc = "warnings" =>
        /\ r'.Valid = r.Valid
        /\ r'.Errors = r.Errors
        /\ r'.Warnings = r.Warnings \o
              [ j \in 1..Len(spec.ParseWarnings) |->
                  [ Code |-> "W001", Message |-> spec.ParseWarnings[j],
                    Location |-> <<"p","a","r","s","e">>, Severity |-> "warning",
                    Suggestion |-> NoSuggestion, Fixable |-> FALSE ] ]

\* C14: each landmark whose name is outside the closed set of recognized
\* names gives exactly one parse warning, which Lint reports as one warning
\* with code W001 at location parse, without adding an error or changing
\* valid; it does not end the current function, so the function-scoped
\* landmarks after it are stored in the same function.
C14_UnrecognizedLandmarkWarns == [](C14_Parsed) /\ [][C14_Surfaced]_vars

\* C14 witness: FUNCTION, NOTES, EXAMPLES: one W001 warning at parse, and the
\* EXAMPLES landmark stored in the function
C14_Witness ==
    /\ pc = "done"
    /\ [k \in 1..Len(landmarks) |-> landmarks[k].Name] =
          <<LandmarkFUNCTION, <<"N","O","T","E","S">>, LandmarkEXAMPLES>>
    /\ DOMAIN spec.Functions[1].Landmarks = {LandmarkEXAMPLES}
    /\ Len(r.Warnings) = 1
    /\ r.Warnings[1].Code = "W001"
    /\ r.Warnings[1].Location = <<"p","a","r","s","e">>
    /\ r.Warnings[1].Message.args[1] = <<"N","O","T","E","S">>

\* a type name lowercased, without blanks and underscores, without a leading
\* list-of, array-of or set-of
C15_Normalize(name) ==
    LET bare  == ToLower(SelectSeq(name, LAMBDA c : c \notin {" ", "_"}))
        strip == {p \in { <<"l","i","s","t","o","f">>, <<"a","r","r","a","y","o","f">>, <<"s","e","t","o","f">> } :
                     Len(bare) > Len(p) /\ SubSeq(bare, 1, Len(p)) = p}
    IN  IF strip = {} THEN bare
        ELSE SubSeq(bare, Len(CHOOSE p \in strip : TRUE) + 1, Len(bare))
\* the type a DATA block defines: the first word of its content
C15_DataName(content) ==
    LET stop == {i \in 1..Len(content) : content[i] \in {" ", "\n", "\t"}}
    IN  IF stop = {} THEN content ELSE SubSeq(content, 1, SetMin(stop) - 1)
C15_DataNames ==
    {C15_Normalize(C15_DataName(spec.DataBlocks[i].Content)) : i \in 1..Len(spec.DataBlocks)}
C15_BuiltinNames ==
    { <<"s","t","r","i","n","g">>, <<"i","n","t">>, <<"i","n","t","e","g","e","r">>, <<"n","u","m","b","e","r">>, <<"b","o","o","l">>, <<"b","o","o","l","e","a","n">>, <<"f","l","o","a","t">>,
      <<"d","o","u","b","l","e">>, <<"l","i","s","t">>, <<"a","r","r","a","y">>, <<"m","a","p">>, <<"d","i","c","t">>, <<"a","n","y">>, <<"v","o","i","d">>, <<"n","o","n","e">>,
      <<"n","u","l","l">>, <<"r","e","s","u","l","t">>, <<"o","u","t","p","u","t">>, <<"s","u","m">>, <<"f","i","l","t","e","r","e","d">>, <<"v","a","l","i","d">>, <<"i","s","s","u","e","s">>,
      <<"t","i","m","e","s","t","a","m","p">>, <<"i","d">> }
C15_Known(fn) ==
    \/ C15_Normalize(fn.ReturnType) \in C15_DataNames
    \/ C15_Normalize(fn.ReturnType) \in C15_BuiltinNames
\* the return-type warnings given to a function, under either code
C15_TypeWarnings(fn) ==
    SelectSeq(r.Warnings,
              LAMBDA w : /\ w.Code \in {"W006", "E006"}
                         /\ w.Location = <<"F","U","N","C","T","I","O","N"," ">> \o fn.Name)

\* C15 as stated: with at least one DATA block, a function whose return type
\* equals a DATA type name after both are normalized, or a builtin after
\* normalization, gets no return-type warning.
C15_KnownTypeNoWarning ==
    (AfterStructural /\ Len(spec.DataBlocks) > 0) =>
        \A n \in 1..Len(spec.Functions) :
            (spec.Functions[n].ReturnType # <<>> /\ C15_Known(spec.Functions[n]))
                => C15_TypeWarnings(spec.Functions[n]) = <<>>

\* C16 as stated: with at least one DATA block, a function whose non-empty
\* return type matches neither a DATA type nor a builtin gets one warning
\* with code W006 at the function, citing the return type, and no error for
\* it; with no DATA block no such warning is given.
C16_UnknownTypeWarnsW006 ==
    AfterStructural =>
        /\ Len(spec.DataBlocks) = 0 =>
              \A j \in 1..Len(r.Warnings) : r.Warnings[j].Code \notin {"W006", "E006"}
        /\ \A j \in 1..Len(r.Errors) : r.Errors[j].Code \notin {"W006", "E006"}
        /\ Len(spec.DataBlocks) > 0 =>
              \A n \in 1..Len(spec.Functions) :
                  (spec.Functions[n].ReturnType # <<>> /\ ~C15_Known(spec.Functions[n]))
                      => \E j \in 1..Len(r.Warnings) :
                            /\ r.Warnings[j].Code = "W006"
                            /\ r.Warnings[j].Location = <<"F","U","N","C","T","I","O","N"," ">> \o spec.Functions[n].Name
                            /\ r.Warnings[j].Severity = "warning"
                            /\ r.Warnings[j].Message.args = <<spec.Functions[n].ReturnType>>

\* the per-function counts, over the functions that have the landmark
C17_Examples ==
    [i \in 1..Len(spec.Functions) |->
        IF LandmarkEXAMPLES \in DOMAIN spec.Functions[i].Landmarks
        THEN CountExamples(spec.Functions[i].Landmarks[LandmarkEXAMPLES].Content) ELSE 0]
C17_Branches ==
    [i \in 1..Len(spec.Functions) |->
        IF LandmarkRULES \in DOMAIN spec.Functions[i].Landmarks
        THEN CountBranches(spec.Functions[i].Landmarks[LandmarkRULES].Content) ELSE 0]
\* the fraction <<n, d>> equals a / b * 100
C17_IsPercentOf(frac, a, b) == frac[2] > 0 /\ frac[1] * b = a * 100 * frac[2]
C17_ZeroStats ==
    /\ r.Stats.Functions = 0 /\ r.Stats.Examples = 0 /\ r.Stats.Branches = 0
    /\ r.Stats.CoveragePercent[1] = 0

C18_CoverageCapped ==
    pc = "done" =>
       /\ r.Stats.CoveragePercent[1] <= 100 * r.Stats.CoveragePercent[2]
       /\ (r.Stats.Branches > 0 /\ r.Stats.Examples >= r.Stats.Branches)
             => r.Stats.CoveragePercent[1] = 100 * r.Stats.CoveragePercent[2]

\* the keys of a serialized object
C19_Keys(obj) == {obj[i][1] : i \in 1..Len(obj)}
C19_Member(obj, key) == obj[CHOOSE i \in 1..Len(obj) : obj[i][1] = key][2]
C19_IssueKeys == {"code", "message", "location", "severity", "suggestion", "fixable"}

\* C19 as stated: the serialization of every result has the keys file, valid,
\* errors, warnings, stats; each of its errors and warnings has the keys code,
\* message, location, severity, suggestion, fixable; its stats have the keys
\* functions, branches, examples, coverage_percent; findings without a
\* suggestion and zero coverage included.
C19_AllKeysPresent ==
    op = "ToJSON" =>
        LET out == ToJSON(r)
        IN  /\ C19_Keys(out) = {"file", "valid", "errors", "warnings", "stats"}
            /\ \A list \in {"errors", "warnings"} :
                   \A i \in 1..Len(C19_Member(out, list)) :
                       C19_Keys(C19_Member(out, list)[i]) = C19_IssueKeys
            /\ C19_Keys(C19_Member(out, "stats")) =
                   {"functions", "branches", "examples", "coverage_percent"}

\* the multiset of the entries of a list
C20_Bag(s) == [e \in {s[i] : i \in 1..Len(s)} |-> Cardinality({i \in 1..Len(s) : s[i] = e})]
C20_Fresh == NewLintResult(FileName)
\* the results a checker can leave when it alone runs on a new result
C20_Alone(name) ==
    IF name = "structural" THEN {StructuralCheck(spec, C20_Fresh)}
    ELSE IF name = "complexity" THEN {ComplexityCheck(spec, C20_Fresh, New(cfg))}
    ELSE IF name = "evolution" THEN {EvolutionCheck(spec, C20_Fresh)}
    ELSE {DeterminismCheck(spec, C20_Fresh, v) : v \in Variants}
\* the results of the order Lint uses
C20_LintOrder ==
    {DeterminismCheck(spec,
         EvolutionCheck(spec,
             ComplexityCheck(spec, StructuralCheck(spec, C20_Fresh), New(cfg))), v) : v \in Variants}
C20_AllRun == pc = "checkers" /\ Len(ran) = 4
\* after all four, in whatever order: the flag and the multisets of Lint's order
C20_SameOutcome ==
    C20_AllRun =>
        \E ref \in C20_LintOrder :
            /\ r.Valid = ref.Valid
            /\ C20_Bag(r.Errors) = C20_Bag(ref.Errors)
            /\ C20_Bag(r.Warnings) = C20_Bag(ref.Warnings)
\* a checker appends what it reports on a new result, whatever the result holds
C20_Step ==
    (ran' # ran) =>
        \E alone \in C20_Alone(ran'[Len(ran')]) :
            /\ r'.Errors = r.Errors \o alone.Errors
            /\ r'.Warnings = r.Warnings \o alone.Warnings
            /\ r'.Valid = (r.Valid /\ alone.Valid)
            /\ r'.Stats = r.Stats /\ r'.File = r.File

\* C20: the four checkers run against one new result in any of the 24 orders
\* leave the same valid flag and the same multisets of errors and of warnings;
\* only the positions in the lists differ, and each checker appends what it
\* would report on a new result, so none reads the result it writes to.
C20_CheckersIndependent == [](C20_SameOutcome) /\ [][C20_Step]_vars

\* the reverse of Lint's order, with errors of all four checkers:
\* the lists differ from those of Lint's order, the multisets do not
C20_Witness ==
    /\ C20_AllRun
    /\ ran = <<"determinism", "evolution", "complexity", "structural">>
    /\ \A c \in {"E070", "E060", "E012", "E003"} : \E i \in 1..Len(r.Errors) : r.Errors[i].Code = c
    /\ r.Errors[1].Code = "E070"
    /\ \A ref \in C20_LintOrder : ref.Errors # r.Errors /\ ref.Errors[1].Code # "E070"

\* the invocations Lint can end in when it runs alone from `inv`
RECURSIVE C21_Finish(_, _)
C21_Finish(inv, c) ==
    IF inv.pc = "done" THEN {inv}
    ELSE UNION {C21_Finish(s, c) : s \in LintSteps(inv, c)}
C21_Alone(t) == C21_Finish(Invocation(t), DefaultConfig)
C21_Locals == <<pc, matches, landmarks, spec, r>>
\* what an invocation returns is what it returns alone
C21_AsAlone ==
    /\ pc = "done" => \E f \in C21_Alone(text) : r = f.r /\ spec = f.spec
    /\ other.pc = "done" => \E f \in C21_Alone(other.text) : other.r = f.r /\ other.spec = f.spec
    /\ (pc = "done" /\ other.pc = "done" /\ text = other.text) => r = other.r
\* a statement writes the locals of one invocation and nothing of the Linter
C21_OwnWrites ==
    /\ cfg' = cfg /\ text' = text /\ other'.text = other.text
    /\ C21_Locals' = C21_Locals \/ other' = other

\* C21: two invocations of Lint on one Linter, interleaved in any way, each
\* return the result they return when run alone; each writes only its own
\* result and parsed spec, the configuration is never written, and the same
\* content linted twice gives identical results.
C21_LinterStateless == [](C21_AsAlone) /\ [][C21_OwnWrites]_vars

\* both invocations returned, on different contents, with different findings
C21_Witness ==
    /\ pc = "done" /\ other.pc = "done"
    /\ text # other.text
    /\ Len(r.Errors) > 0 /\ Len(other.r.Errors) > 0
    /\ r.Errors # other.r.Errors
    /\ \E i \in 1..Len(other.r.Errors) : other.r.Errors[i].Code = "E070"
    /\ \A i \in 1..Len(r.Errors) : r.Errors[i].Code # "E070"

\* the request passes the handler's validations
C22_Passes ==
    /\ http.method = "POST"
    /\ ~http.fails
    /\ ~Unmarshal(http.body).err
    /\ Unmarshal(http.body).Spec # <<>>
C22_Invoked == pc # "idle"
\* the linter runs only for a request that passed, once, on the decoded spec;
\* a request that does not pass is answered 4xx, one that passes 200
C22_ValidatedFirst ==
    /\ http.calls \in {0, 1}
    /\ C22_Invoked <=> http.calls = 1
    /\ C22_Invoked => (C22_Passes /\ text = Unmarshal(http.body).Spec /\ http.pc \in {"linting", "done"})
    /\ http.status \in 400..499 => (~C22_Invoked /\ ~C22_Passes)
    /\ http.pc = "done" =>
          IF C22_Passes THEN http.status = 200 /\ pc = "done"
          ELSE http.status \in 400..499 /\ ~C22_Invoked
\* the call of Lint is the only statement that starts the linter
C22_CallStartsLint ==
    (pc = "idle" /\ pc' # "idle") => (http.pc = "lint" /\ http'.calls = http.calls + 1)

\* C22: the handler of /api/lint validates before linting: a request that is
\* not POST, or whose body is not JSON, or whose spec is empty or missing, is
\* answered with a 4xx status and the linter is never invoked; Lint is invoked
\* exactly once, and only after the validations passed.
C22_ValidatesBeforeLint == [](C22_ValidatedFirst) /\ [][C22_CallStartsLint]_vars

\* a POST whose spec member is written Spec: linted, answered 200
C22_Witness ==
    /\ http.pc = "done" /\ http.status = 200 /\ http.calls = 1
    /\ http.body = <<" ","{","\"","S","p","e","c","\"",":","\"","R","U","L","E","S",":"," ","-"," ","a","\"","}"," ">>
    /\ text = <<"R","U","L","E","S",":"," ","-"," ","a">>
    /\ pc = "done" /\ ~r.Valid

\* a POST with an empty spec: answered 400, the linter untouched
C22_WitnessRejected ==
    /\ http.pc = "done" /\ http.status = 400 /\ http.calls = 0
    /\ http.method = "POST" /\ http.body = <<"{","\"","s","p","e","c","\"",":","\"","\"","}">>
    /\ pc = "idle" /\ r = NoResult

\* the invocations the program's Lint can end in
RECURSIVE C23_Finish(_, _)
C23_Finish(inv, config) ==
    IF inv.pc = "done" THEN {inv}
    ELSE UNION {C23_Finish(s, config) : s \in CliLintSteps(inv, config)}
C23_LintsValid(content) ==
    \A f \in C23_Finish(NamedInvocation(<<>>, content), cli.config) : f.r.Valid
\* the inputs of the run
C23_Inputs == IF Len(cli.args) = 0 THEN <<cli.stdin>> ELSE cli.args
C23_AllRead == \A k \in 1..Len(C23_Inputs) : C23_Inputs[k].readable
C23_AllValid == \A k \in 1..Len(C23_Inputs) : C23_LintsValid(C23_Inputs[k].content)

\* C23: the program exits with 0 iff every input was read and linted valid,
\* with 1 iff every input was read and at least one result is invalid, and
\* with 2 when an input cannot be read, whatever the other inputs hold.
C23_ExitCodes ==
    IF cli.pc = "exited"
    THEN /\ cli.exit \in {0, 1, 2}
         /\ cli.exit = 0 <=> (C23_AllRead /\ C23_AllValid)
         /\ cli.exit = 1 <=> (C23_AllRead /\ ~C23_AllValid)
         /\ ~C23_AllRead => cli.exit = 2
    ELSE cli.exit = -1

\* a valid file and an unreadable one: exit code 2
C23_Witness ==
    /\ cli.pc = "exited" /\ cli.exit = 2
    /\ Len(cli.args) = 2
    /\ cli.args[1].readable /\ C23_LintsValid(cli.args[1].content)
    /\ ~cli.args[2].readable

C30_BothReturned == other.pc = "done" /\ cli.inv.pc = "done"

\* C30: for every name, content and MaxRules/MaxInputs configuration the
\* library's Lint and the program's Lint return results with the same file,
\* valid flag, errors and warnings in the same order, and the same stats,
\* whatever the program's NoLLM and Verbose flags are.
C30_OrchestratorsAgree ==
    C30_BothReturned =>
        /\ other.r.File = cli.inv.r.File
        /\ other.r.Valid = cli.inv.r.Valid
        /\ other.r.Errors = cli.inv.r.Errors
        /\ other.r.Warnings = cli.inv.r.Warnings
        /\ other.r.Stats = cli.inv.r.Stats
        /\ other.r.File = other.name

\* limits of one rule item and one input, a function over both, the program
\* verbose with semantic checks on: E010 and E011 in both results
C30_Witness ==
    /\ C30_BothReturned
    /\ cfg = [MaxRules |-> 1, MaxInputs |-> 1]
    /\ cli.inv.stderr # <<>>
    /\ other.name = StdinName
    /\ \A c \in {"E010", "E011"} :
          \E i \in 1..Len(cli.inv.r.Errors) : cli.inv.r.Errors[i].Code = c
    /\ other.r = cli.inv.r

\* positions in the landmark list, by kind
C24_At(names) == SelectSeq([k \in 1..Len(landmarks) |-> k], LAMBDA k : landmarks[k].Name \in names)
C24_Enders == {LandmarkDATA, LandmarkCONSTRAINT}
\* the landmarks from a FUNCTION up to the next FUNCTION, DATA or CONSTRAINT
C24_ContextEnd(f) ==
    SetMin({j \in (f + 1)..Len(landmarks) :
               landmarks[j].Name \in C24_Enders \cup {LandmarkFUNCTION}} \cup {Len(landmarks) + 1})
C24_Context(f) ==
    {k \in (f + 1)..(C24_ContextEnd(f) - 1) : landmarks[k].Name \in FunctionLandmarks}
\* the function-scoped landmarks that lie in no function's context
C24_Cut ==
    LET fs == C24_At({LandmarkFUNCTION})
    IN  SelectSeq(C24_At(FunctionLandmarks),
                  LAMBDA k : \A n \in 1..Len(fs) : k \notin C24_Context(fs[n]))

\* C24: DATA and CONSTRAINT landmarks are appended to their lists in document
\* order; a function holds exactly the function-scoped landmarks between its
\* FUNCTION and the next FUNCTION, DATA or CONSTRAINT (what was attached before
\* a DATA or CONSTRAINT stays as it was); every function-scoped landmark after
\* a DATA or CONSTRAINT and before the next FUNCTION is in no function and
\* has one parse warning, in document order.
C24_DataEndsContext ==
    AfterParse =>
        LET fs == C24_At({LandmarkFUNCTION})
            ds == C24_At({LandmarkDATA})
            cs == C24_At({LandmarkCONSTRAINT})
            outside == SelectSeq(spec.ParseWarnings,
                           LAMBDA w : w.fmt = "landmark %s at line %s appears outside FUNCTION block")
        IN  /\ spec.DataBlocks = [j \in 1..Len(ds) |-> landmarks[ds[j]]]
            /\ spec.Constraints = [j \in 1..Len(cs) |-> landmarks[cs[j]]]
            /\ Len(spec.Functions) = Len(fs)
            /\ \A n \in 1..Len(fs) :
                  LET mine == C24_Context(fs[n])
                      lms  == spec.Functions[n].Landmarks
                  IN  /\ DOMAIN lms = {landmarks[k].Name : k \in mine}
                      /\ \A k \in mine :
                            lms[landmarks[k].Name] =
                                landmarks[SetMax({j \in mine : landmarks[j].Name = landmarks[k].Name})]
            /\ [j \in 1..Len(outside) |-> outside[j].args[1]] =
               [j \in 1..Len(C24_Cut) |-> landmarks[C24_Cut[j]].Name]

\* FUNCTION, RULES, CONSTRAINT, EXAMPLES, DATA: RULES stays in the function,
\* EXAMPLES is in no function and has a parse warning
C24_Witness ==
    /\ pc = "done"
    /\ [k \in 1..Len(landmarks) |-> landmarks[k].Name] =
          <<LandmarkFUNCTION, LandmarkRULES, LandmarkCONSTRAINT, LandmarkEXAMPLES, LandmarkDATA>>
    /\ Len(spec.Functions) = 1
    /\ DOMAIN spec.Functions[1].Landmarks = {LandmarkRULES}
    /\ Len(spec.Constraints) = 1 /\ Len(spec.DataBlocks) = 1
    /\ Len(spec.ParseWarnings) = 1
    /\ spec.ParseWarnings[1].args[1] = LandmarkEXAMPLES

\* the number of line breaks before the k-th landmark, plus one
C25_Line(k) == Count(SubSeq(text, 1, matches[k].startIndex - 1), "\n") + 1

\* findLandmarks gives every landmark its 1-based line
C25_LineNumbers ==
    AfterParse =>
        /\ Len(matches) = Len(landmarks)
        /\ \A k \in 1..Len(landmarks) : landmarks[k].LineNumber = C25_Line(k)

\* what the parse warnings do cite: the landmark's name and the one character
\* with code point line + 48
C25_CitesRune ==
    AfterParse =>
        /\ Len(spec.ParseWarnings) = Len(landmarks)
        /\ \A k \in 1..Len(landmarks) :
              spec.ParseWarnings[k].args = <<landmarks[k].Name, RuneString(C25_Line(k))>>

\* up to line 9 the character is the decimal digit
C25_DecimalBelowTen ==
    AfterParse =>
        \A k \in 1..Len(landmarks) :
            C25_Line(k) < 10 => spec.ParseWarnings[k].args[2] = Itoa(C25_Line(k))

\* C25: every parse warning (function-scoped landmark without a function,
\* unrecognized landmark) cites the landmark's name and its 1-based line
\* number in decimal, the line number being the number of line breaks before
\* the landmark plus one.
C25_CitesDecimalLine ==
    AfterParse =>
        /\ Len(spec.ParseWarnings) = Len(landmarks)
        /\ \A k \in 1..Len(landmarks) :
              spec.ParseWarnings[k].args = <<landmarks[k].Name, Itoa(C25_Line(k))>>

\* a landmark at line 10 is cited as line ":"
C25_LineTenShown ==
    /\ pc = "done"
    /\ Len(landmarks) >= 1
    /\ C25_Line(1) = 10
    /\ spec.ParseWarnings[1].args[2] = <<":">>
    /\ r.Warnings[1].Code = "W001"

\* the contribution of one line of a RULES text, taken alone
C26_Remaining(line) ==
    LET n == SimpleIfCount(line) - IfOrCount(line) - IfElseCount(line)
    IN  IF n > 0 THEN n ELSE 0
C26_Line(line) ==
    (IF EitherOrMatches(line) # <<>>
     THEN 2 * Len(EitherOrMatches(line))
     ELSE 2 * IfOrCount(line) + 2 * IfElseCount(line) + C26_Remaining(line) + WhenCount(line))
    + 2 * OptionalCount(line)
C26_Sum(rules) ==
    LET lines == Split(ToLower(rules), "\n")
        sum   == SumSeq([i \in 1..Len(lines) |-> C26_Line(lines[i])])
    IN  IF sum = 0 /\ TrimSpace(rules) # <<>> THEN 1 ELSE sum
\* an if that both the if-or and the if-else pattern count
C26_CountedTwice(rules) ==
    LET lines == Split(ToLower(rules), "\n")
    IN  \E i \in 1..Len(lines) :
            /\ EitherOrMatches(lines[i]) = <<>>
            /\ SimpleIfCount(lines[i]) < IfOrCount(lines[i]) + IfElseCount(lines[i])

C26_Returned == pc = "done" /\ Len(spec.Functions) = 1

\* C26: the branch count of a RULES text is the sum of the contributions of
\* its lines (floored to 1 for a non-blank text without any); a bare if on
\* one line adds exactly 1 whatever the other lines hold.
C26_BranchesAddUp ==
    C26_Returned => r.Stats.Branches = C26_Sum(GetRules(spec.Functions[1]))

\* the sum is what the code returns when no if is counted by both patterns
C26_AddUpWithoutOverlap ==
    C26_Returned /\ ~C26_CountedTwice(GetRules(spec.Functions[1]))
        => r.Stats.Branches = C26_Sum(GetRules(spec.Functions[1]))

\* 'if a or b else c' next to a bare 'if a': 4 branches, not 5
C26_BareIfLost ==
    /\ C26_Returned
    /\ GetRules(spec.Functions[1]) = <<"-"," ","i","f"," ","a"," ","o","r"," ","b"," ","e","l","s","e"," ","c","\n","-"," ","i","f"," ","a">>
    /\ r.Stats.Branches = 4
    /\ C26_Sum(GetRules(spec.Functions[1])) = 5

\* the single items of the documented comma form
C27_CommaForms == { <<"-"," ","i","f"," ","a",","," ","o","t","h","e","r","w","i","s","e"," ","b">>, <<"-"," ","i","f"," ","a",","," ","e","l","s","e"," ","b">> }

\* C27: a rule of the form 'if X, otherwise Y' or 'if X, else Y' counts as
\* 2 branches.
C27_CommaFormTwoBranches ==
    C26_Returned /\ GetRules(spec.Functions[1]) \in C27_CommaForms
        => r.Stats.Branches = 2

\* without the comma the form counts as 2; with it as 1
C27_CommaStopsPattern ==
    /\ C26_Returned
    /\ \/ GetRules(spec.Functions[1]) = <<"-"," ","i","f"," ","a"," ","o","t","h","e","r","w","i","s","e"," ","b">> /\ r.Stats.Branches = 2
       \/ GetRules(spec.Functions[1]) \in C27_CommaForms /\ r.Stats.Branches = 1

\* the trimmed lines of a RULES text: those starting with a dash, those with
\* text after the dash, those that are not empty
C28_Trimmed(content) ==
    LET lines == Split(content, "\n") IN [i \in 1..Len(lines) |-> TrimSpace(lines[i])]
C28_Dashed(content) == SelectSeq(C28_Trimmed(content), LAMBDA t : HasPrefix(t, <<"-">>))
C28_Filled(content) == SelectSeq(C28_Dashed(content), LAMBDA t : TrimSpace(Tail(t)) # <<>>)
C28_NonEmpty(content) == SelectSeq(C28_Trimmed(content), LAMBDA t : t # <<>>)

\* the E010 errors of the returned result, given the item count of the one
\* function's RULES
C28_E010For(count) ==
    LET es == WithCode(r.Errors, {"E010"})
    IN  IF count > cfg.MaxRules
        THEN /\ Len(es) = 1
             /\ es[1].Message.args = <<Itoa(count), Itoa(cfg.MaxRules)>>
        ELSE es = <<>>

C28_Returned == pc = "done" /\ Len(spec.Functions) = 1

\* C28 as stated: the item count is the number of lines whose trimmed text
\* starts with a dash, and the number of non-empty lines only when no line
\* starts with a dash.
C28_DashLinesCounted ==
    C28_Returned =>
        LET rules == GetRules(spec.Functions[1])
        IN  C28_E010For(IF C28_Dashed(rules) # <<>>
                        THEN Len(C28_Dashed(rules)) ELSE Len(C28_NonEmpty(rules)))

\* C28 amended: the item count is the number of lines whose trimmed text
\* starts with a dash and has text after the dash; when there is no such
\* line it is the number of non-empty lines (a bare dash among them); it is
\* 0 for empty or blank content.
C28_FilledItemsCounted ==
    C28_Returned =>
        LET rules == GetRules(spec.Functions[1])
            count == IF C28_Filled(rules) # <<>>
                     THEN Len(C28_Filled(rules)) ELSE Len(C28_NonEmpty(rules))
        IN  /\ C28_E010For(count)
            /\ TrimSpace(rules) = <<>> => count = 0

\* an item, a bare dash, an item, limit two: two items, no E010
C28_Witness ==
    /\ C28_Returned
    /\ cfg.MaxRules = 2
    /\ GetRules(spec.Functions[1]) = <<"-"," ","a","\n","-","\n"," "," ","-"," ","a">>
    /\ WithCode(r.Errors, {"E010"}) = <<>>

\* a bare dash and a plain line, limit one: both lines count, E010 cites 2
C28_WitnessFallback ==
    /\ C28_Returned
    /\ cfg.MaxRules = 1
    /\ Len(C28_Dashed(GetRules(spec.Functions[1]))) = 1
    /\ Len(C28_Filled(GetRules(spec.Functions[1]))) = 0
    /\ Len(WithCode(r.Errors, {"E010"})) = 1
    /\ WithCode(r.Errors, {"E010"})[1].Message.args[1] = <<"2">>

C29_Returned == pc = "done" /\ Len(spec.Functions) = 1
C29_Has(code) == \E i \in 1..Len(r.Errors) : r.Errors[i].Code = code
\* checkExampleCoverage returns before it counts
C29_Skipped == GetRules(spec.Functions[1]) = <<>> \/ GetExamples(spec.Functions[1]) = <<>>

\* C29: whenever the coverage check is skipped because the RULES or the
\* EXAMPLES content is empty, the result holds E002 or E004 respectively;
\* no function with non-empty RULES and zero examples is valid.
C29_SkipMeansMissingReported ==
    C29_Returned =>
        LET fn == spec.Functions[1]
        IN  /\ GetRules(fn) = <<>> => C29_Has("E002")
            /\ GetExamples(fn) = <<>> => C29_Has("E004")
            /\ (GetRules(fn) # <<>> /\ CountExamples(GetExamples(fn)) = 0) => ~r.Valid

\* what holds: an absent landmark is reported, and zero examples in
\* non-empty EXAMPLES content give E012
C29_AbsentReported ==
    C29_Returned =>
        LET fn == spec.Functions[1]
        IN  /\ LandmarkRULES \notin DOMAIN fn.Landmarks <=> C29_Has("E002")
            /\ LandmarkEXAMPLES \notin DOMAIN fn.Landmarks <=> C29_Has("E004")
            /\ (~C29_Skipped /\ CountExamples(GetExamples(fn)) = 0) => C29_Has("E012")

\* RULES with a branch and EXAMPLES with empty content: valid without a
\* single example
C29_EmptyExamplesValid ==
    /\ C29_Returned
    /\ GetRules(spec.Functions[1]) # <<>>
    /\ LandmarkEXAMPLES \in DOMAIN spec.Functions[1].Landmarks
    /\ GetExamples(spec.Functions[1]) = <<>>
    /\ r.Valid /\ r.Errors = <<>>
    /\ r.Stats.Examples = 0 /\ r.Stats.Branches = 1

====
